---- MODULE Spec2Model ----
(***************************************************************************)
(* Verification model of the Alx_DjangoLearnLab repository:                *)
(*   - social_media_api : posts, likes, follow/unfollow, notifications     *)
(*   - advanced-api-project : Book CRUD behind DRF permission classes      *)
(*   - social_media_api/accounts : registration, login, logout with tokens *)
(*   - django_blog : registration, profile, post and comment edit/delete   *)
(* Every request handler is one action.  The last response is kept in      *)
(* `resp` so that properties can speak about status codes and bodies.      *)
(***************************************************************************)
EXTENDS Integers, Sequences, FiniteSets, Bags, TLC

(***************************************************************************)
(* Bounds of the model.                                                    *)
(***************************************************************************)
MaxPosts == 1
MaxNotifs == 2
MaxAuthors == 1
MaxBooks == 1
MaxComments == 2
MaxShelf == 2
MaxPageShelf == 21

Users == {"u1", "u2", "u3"}
PostIds == 1..MaxPosts
PostInputs == 0..MaxPosts       \* primary keys in request URLs; 0 is never a row
Contents == {"a", "b"}
NoPref == [exists |-> FALSE, notify_on_like |-> TRUE]
NoResp == [op |-> "none", status |-> 0]

\* NotificationsConfig.ready may or may not import notifications.signals:
\* the receivers of post_save are registered, or they are not
SignalWirings == BOOLEAN

VARIABLES
    signalsConnected,  \* whether notifications.signals receivers are registered
    posts,             \* Post table: id -> [author, content]
    nextPostId,        \* next primary key of the Post table
    likeRows,          \* Like table: <<user, post>> -> number of rows
    prefs,             \* NotificationPreference table: user -> NoPref or row
    notifications,     \* Notification table: row -> number of such rows
    follows,           \* CustomUser.followers through table: <<follower, target>>
    comments,          \* Comment table: id -> [author, post]
    nextCommentId,     \* next primary key of the Comment table
    authors,           \* Author table: id -> [name]
    nextAuthorId,      \* next primary key of the Author table
    books,             \* Book table: id -> [title, publication_year, author]
    nextBookId,        \* next primary key of the Book table
    accounts,          \* CustomUser table of the token API: username -> [password]
    tokens,            \* authtoken Token table: rows [user, key]
    nextKey,           \* the next key Token.generate_key hands out
    likeProcs,         \* like requests in progress: process -> [pc, user, post, ...]
    blogUsers,         \* django_blog User table: id -> [username, email, ...]
    nextBlogUserId,    \* next primary key of the django_blog User table
    blogProfiles,      \* django_blog UserProfile table: user id -> [bio]
    blogPosts,         \* django_blog Post table: id -> [title, content, author]
    blogComments,      \* django_blog Comment table: id -> [post, author, content]
    resp               \* the response to the last request

commentVars == <<comments, nextCommentId>>

socialVars == <<signalsConnected, posts, nextPostId, likeRows, prefs,
                notifications, follows, commentVars>>

bookVars == <<authors, nextAuthorId, books, nextBookId>>

authVars == <<accounts, tokens, nextKey>>

blogVars == <<blogUsers, nextBlogUserId, blogProfiles, blogPosts, blogComments>>

appVars == <<authVars, likeProcs, blogVars>>

vars == <<socialVars, bookVars, appVars, resp>>

\* no token account, no like request in progress and an empty blog
AuthIdle == accounts = <<>> /\ tokens = {} /\ nextKey = 1

RaceIdle == likeProcs = <<>>

BlogIdle ==
    /\ blogUsers = <<>>
    /\ nextBlogUserId = 1
    /\ blogProfiles = <<>>
    /\ blogPosts = <<>>
    /\ blogComments = <<>>

AppsIdle == AuthIdle /\ RaceIdle /\ BlogIdle

(***************************************************************************)
(* Table helpers.                                                          *)
(***************************************************************************)
PostExists(p) == p \in DOMAIN posts

NotifRow(recipient, actor, verb, target) ==
    [recipient |-> recipient, actor |-> actor, verb |-> verb,
     target |-> target, is_read |-> FALSE]

NotifTotal == BagCardinality(notifications)

\* Notification.objects.create(...) for each row of the sequence `rows`
RECURSIVE NotifAdd(_, _)
NotifAdd(tbl, rows) ==
    IF rows = <<>> THEN tbl
    ELSE NotifAdd(tbl (+) SetToBag({Head(rows)}), Tail(rows))

\* post.likes.count()
LikesCount(rows, p) ==
    LET RECURSIVE Sum(_)
        Sum(T) == IF T = {} THEN 0
                  ELSE LET x == CHOOSE y \in T : TRUE
                       IN CopiesIn(<<x, p>>, rows) + Sum(T \ {x})
    IN Sum(Users)

(***************************************************************************)
(* PostViewSet.like                                                        *)
(***************************************************************************)
LikeLookupNever(u, p) == FALSE

\* the lookup half of Like.objects.get_or_create(user=..., post=...)
LikeLookup(u, p) == CopiesIn(<<u, p>>, likeRows) > 0

\* like_created_signal: what the post_save receiver does for a new Like
LikeSignalOutcome(u, p) ==
    IF ~signalsConnected THEN "skip"
    ELSE IF u = posts[p].author THEN "skip"
    ELSE IF prefs[posts[p].author].exists THEN "AttributeError"
    ELSE "notify"

\* the notification of the view itself (views.py lines 90-98)
LikeViewNotifies(u, p) == posts[p].author # u

Like(u, p) ==
    IF ~PostExists(p) THEN
        /\ resp' = [op |-> "like", user |-> u, post |-> p, status |-> 404,
                    error |-> "not_found", likes_count |-> 0]
        /\ UNCHANGED socialVars
    ELSE IF LikeLookup(u, p) THEN
        /\ resp' = [op |-> "like", user |-> u, post |-> p, status |-> 400,
                    error |-> "already_liked", likes_count |-> 0]
        /\ UNCHANGED socialVars
    ELSE IF LikeSignalOutcome(u, p) = "AttributeError" THEN
        \* raised inside get_or_create's atomic block: the insert is rolled back
        /\ resp' = [op |-> "like", user |-> u, post |-> p, status |-> 500,
                    error |-> "AttributeError", likes_count |-> 0]
        /\ UNCHANGED socialVars
    ELSE
        LET author == posts[p].author
            row == NotifRow(author, u, "like", p)
            fromSignal == IF LikeSignalOutcome(u, p) = "notify"
                          THEN <<row>> ELSE <<>>
            fromView == IF LikeViewNotifies(u, p) THEN <<row>> ELSE <<>>
        IN  /\ NotifTotal + 2 <= MaxNotifs \/ author = u
            /\ likeRows' = likeRows (+) SetToBag({<<u, p>>})
            /\ prefs' = IF LikeSignalOutcome(u, p) = "notify"
                        THEN [prefs EXCEPT ![author] = [exists |-> TRUE, notify_on_like |-> TRUE]]
                        ELSE prefs
            /\ notifications' = NotifAdd(notifications, fromSignal \o fromView)
            /\ resp' = [op |-> "like", user |-> u, post |-> p, status |-> 201,
                        error |-> "", likes_count |-> LikesCount(likeRows', p)]
            /\ UNCHANGED <<commentVars, signalsConnected, posts, nextPostId, follows>>

(***************************************************************************)
(* PostViewSet.unlike                                                      *)
(***************************************************************************)
\* post.likes.filter(user=request.user).first()
UnlikeLookup(u, p) == CopiesIn(<<u, p>>, likeRows) > 0

UnlikeDeleteAll(u, p) ==
    [k \in {x \in DOMAIN likeRows : x[2] # p} |-> likeRows[k]]

\* like.delete(): the row of the requesting user on this post
UnlikeDelete(u, p) == likeRows (-) SetToBag({<<u, p>>})

Unlike(u, p) ==
    IF ~PostExists(p) THEN
        /\ resp' = [op |-> "unlike", user |-> u, post |-> p, status |-> 404,
                    error |-> "not_found", likes_count |-> 0]
        /\ UNCHANGED socialVars
    ELSE IF ~UnlikeLookup(u, p) THEN
        /\ resp' = [op |-> "unlike", user |-> u, post |-> p, status |-> 400,
                    error |-> "not_liked", likes_count |-> 0]
        /\ UNCHANGED socialVars
    ELSE
        /\ likeRows' = UnlikeDelete(u, p)
        /\ resp' = [op |-> "unlike", user |-> u, post |-> p, status |-> 200,
                    error |-> "", likes_count |-> LikesCount(likeRows', p)]
        /\ UNCHANGED <<commentVars, signalsConnected, posts, nextPostId, prefs,
                       notifications, follows>>

(***************************************************************************)
(* NotificationPreferenceView.update (PATCH notify_on_like)                *)
(***************************************************************************)
PreferenceUpdate(u, v) ==
    /\ prefs' = [prefs EXCEPT ![u] = [exists |-> TRUE, notify_on_like |-> v]]
    /\ resp' = [op |-> "preference", user |-> u, post |-> 0, status |-> 200,
                error |-> "", likes_count |-> 0]
    /\ UNCHANGED <<commentVars, signalsConnected, posts, nextPostId, likeRows,
                   notifications, follows>>

(***************************************************************************)
(* PostViewSet create / update / partial_update / destroy                  *)
(* A payload is [content, author_id]; Absent marks a field not sent.       *)
(***************************************************************************)
Absent == "absent"
PostPayloads == [content : Contents \cup {Absent}, author_id : Users \cup {Absent}]

\* PostCreateSerializer: content is required, author_id is not a field
PostCreateValid(pl) == pl.content # Absent

\* PostViewSet.perform_create / PostCreateSerializer.create
PostCreate(u, pl) ==
    IF ~PostCreateValid(pl) THEN
        /\ resp' = [op |-> "post_create", user |-> u, post |-> 0, status |-> 400,
                    error |-> "content"]
        /\ UNCHANGED socialVars
    ELSE
        /\ nextPostId <= MaxPosts + 1
        /\ posts' = [q \in DOMAIN posts \cup {nextPostId} |->
                        IF q = nextPostId
                        THEN [author |-> u, content |-> pl.content]
                        ELSE posts[q]]
        /\ nextPostId' = nextPostId + 1
        /\ resp' = [op |-> "post_create", user |-> u, post |-> nextPostId,
                    status |-> 201, error |-> ""]
        /\ UNCHANGED <<commentVars, signalsConnected, likeRows, prefs, notifications, follows>>

\* PostSerializer validation: content is required unless the update is partial
PostUpdateValid(partial, pl) == partial \/ pl.content # Absent

\* the ownership test of perform_update / perform_destroy
IsPostAuthor(u, p) == posts[p].author = u

\* what the failed ownership test produces: the builtin PermissionError is
\* no rest_framework APIException, so the request ends as a server error
OwnershipFailure == [status |-> 500, error |-> "PermissionError"]

\* ModelSerializer.update: every validated field is set on the instance
PostApply(post, pl) ==
    [author  |-> IF pl.author_id # Absent THEN pl.author_id ELSE post.author,
     content |-> IF pl.content # Absent THEN pl.content ELSE post.content]

PostUpdate(u, p, partial, pl) ==
    IF ~PostExists(p) THEN
        /\ resp' = [op |-> "post_update", user |-> u, post |-> p, status |-> 404,
                    error |-> "not_found"]
        /\ UNCHANGED socialVars
    ELSE IF ~PostUpdateValid(partial, pl) THEN
        /\ resp' = [op |-> "post_update", user |-> u, post |-> p, status |-> 400,
                    error |-> "content"]
        /\ UNCHANGED socialVars
    ELSE IF ~IsPostAuthor(u, p) THEN
        /\ resp' = [op |-> "post_update", user |-> u, post |-> p,
                    status |-> OwnershipFailure.status,
                    error |-> OwnershipFailure.error]
        /\ UNCHANGED socialVars
    ELSE
        /\ posts' = [posts EXCEPT ![p] = PostApply(posts[p], pl)]
        /\ resp' = [op |-> "post_update", user |-> u, post |-> p, status |-> 200,
                    error |-> ""]
        /\ UNCHANGED <<commentVars, signalsConnected, nextPostId, likeRows, prefs,
                       notifications, follows>>

\* on_delete=CASCADE of Like.post: the Like rows of a deleted post go with it
LikesWithoutPost(rows, p) ==
    LET keep == {k \in BagToSet(rows) : k[2] # p}
    IN [k \in keep |-> rows[k]]

\* on_delete=CASCADE of Comment.post: the comments of a deleted post go with it
CommentsWithoutPost(tbl, p) ==
    [c \in {x \in DOMAIN tbl : tbl[x].post # p} |-> tbl[c]]

\* PostViewSet.perform_destroy; instance.delete() runs in one transaction
PostDestroy(u, p) ==
    IF ~PostExists(p) THEN
        /\ resp' = [op |-> "post_destroy", user |-> u, post |-> p, status |-> 404,
                    error |-> "not_found"]
        /\ UNCHANGED socialVars
    ELSE IF ~IsPostAuthor(u, p) THEN
        /\ resp' = [op |-> "post_destroy", user |-> u, post |-> p,
                    status |-> OwnershipFailure.status,
                    error |-> OwnershipFailure.error]
        /\ UNCHANGED socialVars
    ELSE
        /\ posts' = [q \in DOMAIN posts \ {p} |-> posts[q]]
        /\ likeRows' = LikesWithoutPost(likeRows, p)
        /\ comments' = CommentsWithoutPost(comments, p)
        /\ resp' = [op |-> "post_destroy", user |-> u, post |-> p, status |-> 204,
                    error |-> ""]
        /\ UNCHANGED <<signalsConnected, nextPostId, nextCommentId, prefs,
                       notifications, follows>>

(***************************************************************************)
(* UserViewSet.follow / unfollow and follow_user_view / unfollow_user_view *)
(* A target outside Users is a primary key with no CustomUser row.         *)
(***************************************************************************)
NoUser == "u0"
UserInputs == Users \cup {NoUser}

IsFollowingReversed(u, t) == <<t, u>> \in follows

\* target_user.followers.filter(id=request.user.id).exists()
IsFollowing(u, t) == <<u, t>> \in follows

\* the body shared by the viewset action and the function view
FollowRequest(op, u, t) ==
    IF t \notin Users THEN
        /\ resp' = [op |-> op, user |-> u, target |-> t, status |-> 404,
                    error |-> "not_found"]
        /\ UNCHANGED socialVars
    ELSE IF u = t THEN
        /\ resp' = [op |-> op, user |-> u, target |-> t, status |-> 400,
                    error |-> "cannot_follow_self"]
        /\ UNCHANGED socialVars
    ELSE IF IsFollowing(u, t) THEN
        /\ resp' = [op |-> op, user |-> u, target |-> t, status |-> 400,
                    error |-> "already_following"]
        /\ UNCHANGED socialVars
    ELSE
        \* create_follow_notification is never connected (signals.py line 145
        \* fails before .connect is reached), so no Notification row is made
        /\ follows' = follows \cup {<<u, t>>}
        /\ resp' = [op |-> op, user |-> u, target |-> t, status |-> 200,
                    error |-> ""]
        /\ UNCHANGED <<commentVars, signalsConnected, posts, nextPostId, likeRows, prefs,
                       notifications>>

\* the error of an unfollow whose target is the requester
UnfollowSelfError == "cannot_unfollow_self"

\* target_user.followers.remove(request.user)
FollowersRemove(u, t) == follows \ {<<u, t>>}

UnfollowRequest(op, u, t) ==
    IF t \notin Users THEN
        /\ resp' = [op |-> op, user |-> u, target |-> t, status |-> 404,
                    error |-> "not_found"]
        /\ UNCHANGED socialVars
    ELSE IF u = t THEN
        /\ resp' = [op |-> op, user |-> u, target |-> t, status |-> 400,
                    error |-> UnfollowSelfError]
        /\ UNCHANGED socialVars
    ELSE IF ~IsFollowing(u, t) THEN
        /\ resp' = [op |-> op, user |-> u, target |-> t, status |-> 400,
                    error |-> "not_following"]
        /\ UNCHANGED socialVars
    ELSE
        /\ follows' = FollowersRemove(u, t)
        /\ resp' = [op |-> op, user |-> u, target |-> t, status |-> 200,
                    error |-> ""]
        /\ UNCHANGED <<commentVars, signalsConnected, posts, nextPostId, likeRows, prefs,
                       notifications>>

\* target_user.followers and its reverse accessor user.following
Followers(t) == {u \in Users : <<u, t>> \in follows}
Following(u) == {t \in Users : <<u, t>> \in follows}

Follow(u, t) == FollowRequest("follow", u, t)
Unfollow(u, t) == UnfollowRequest("unfollow", u, t)
FollowUserView(u, t) == FollowRequest("follow_user_view", u, t)
UnfollowUserView(u, t) == UnfollowRequest("unfollow_user_view", u, t)

(***************************************************************************)
(* PostViewSet.comment and the post_save receiver of Comment               *)
(* A request carries content ("" when missing or empty) and parent_comment *)
(* (0 when missing).                                                       *)
(***************************************************************************)
NoParent == 0
CommentContents == {"", "a"}
ParentInputs == 0..(MaxComments + 1)

\* Comment.objects.get(id=parent_comment_id, post=post)
ParentFound(p, k) == k \in DOMAIN comments /\ comments[k].post = p

CommentExchange(op, u, p, content, parent, status, error) ==
    [op |-> op, user |-> u, post |-> p, content |-> content, parent |-> parent,
     status |-> status, error |-> error]

\* PostViewSet.comment; Comment.objects.create(..., parent_comment=...) names
\* a field the Comment model does not have and raises TypeError
PostComment(u, p, content, parent) ==
    /\ resp' =
         IF ~PostExists(p) THEN
             CommentExchange("comment", u, p, content, parent, 404, "not_found")
         ELSE IF content = "" THEN
             CommentExchange("comment", u, p, content, parent, 400, "content_required")
         ELSE IF parent # NoParent /\ ~ParentFound(p, parent) THEN
             CommentExchange("comment", u, p, content, parent, 400, "parent_not_found")
         ELSE
             CommentExchange("comment", u, p, content, parent, 500, "TypeError")
    /\ UNCHANGED socialVars

\* comment_created_signal: what the post_save receiver does for a new
\* Comment by u on post p
CommentSignalOutcome(u, p) ==
    IF ~signalsConnected THEN "skip"
    ELSE IF u = posts[p].author THEN "AttributeError"           \* instance.parent_comment
    ELSE IF prefs[posts[p].author].exists THEN "AttributeError" \* preference.comment_notifications
    ELSE "notify_then_AttributeError"                            \* instance.parent_comment

\* Comment.objects.create(author=u, post=p, content=...) as the test suites
\* call it; the row is saved before post_save is sent, and an exception of the
\* receiver reaches the caller with the row in place
CommentCreate(u, p, parent) ==
    IF parent # NoParent THEN
        /\ resp' = CommentExchange("comment_create", u, p, "a", parent, 0, "TypeError")
        /\ UNCHANGED socialVars
    ELSE
        LET author == posts[p].author
            outcome == CommentSignalOutcome(u, p)
            notify == outcome = "notify_then_AttributeError"
        IN  /\ nextCommentId <= MaxComments
            /\ notify => NotifTotal + 1 <= MaxNotifs
            /\ comments' = comments @@ (nextCommentId :> [author |-> u, post |-> p])
            /\ nextCommentId' = nextCommentId + 1
            /\ prefs' = IF notify
                        THEN [prefs EXCEPT ![author] = [exists |-> TRUE, notify_on_like |-> TRUE]]
                        ELSE prefs
            /\ notifications' =
                 IF notify
                 THEN NotifAdd(notifications, <<NotifRow(author, u, "comment", nextCommentId)>>)
                 ELSE notifications
            /\ resp' = CommentExchange("comment_create", u, p, "a", parent, 0,
                                       IF outcome = "skip" THEN "" ELSE "AttributeError")
            /\ UNCHANGED <<signalsConnected, posts, nextPostId, likeRows, follows>>

(***************************************************************************)
(* NotificationViewSet                                                     *)
(* Here every row of the notifications table carries its primary key.      *)
(***************************************************************************)
NotifIds == 1..MaxNotifs
NotifIdInputs == 0..MaxNotifs          \* 0 is never a row
NotifVerbs == {"like", "follow"}

NotifRecord(id, recipient, actor, verb, is_read) ==
    [id |-> id, recipient |-> recipient, actor |-> actor, verb |-> verb,
     target |-> 1, is_read |-> is_read]

NotifRows == BagToSet(notifications)

NotifQuerysetAll(u) == NotifRows

\* NotificationViewSet.get_queryset
NotifQueryset(u) == {r \in NotifRows : r.recipient = u}

NotifUnreadAll(u) == {r \in NotifRows : ~r.is_read}

\* Notification.objects.filter(recipient=request.user, is_read=False)
NotifUnread(u) == {r \in NotifRows : r.recipient = u /\ ~r.is_read}

\* queryset.update(is_read=v) on the rows S
NotifSetRead(S, v) ==
    SetToBag((NotifRows \ S) \cup {[r EXCEPT !.is_read = v] : r \in S})

\* queryset.delete() on the rows S
NotifDelete(S) == SetToBag(NotifRows \ S)

NotifExchange(op, u, id, status, error, count, results) ==
    [op |-> op, user |-> u, id |-> id, status |-> status, error |-> error,
     count |-> count, results |-> results]

NotifFrame ==
    UNCHANGED <<commentVars, signalsConnected, posts, nextPostId, likeRows, prefs, follows>>

\* NotificationViewSet.list; unread is the text of the query parameter
\* ("absent" when not sent), verb is "" when not sent
NotifList(u, unread, verb) ==
    LET found == {r \in NotifQueryset(u) :
                     /\ unread # "absent" => (r.is_read = (unread # "true"))
                     /\ verb # "" => r.verb = verb}
    IN  /\ resp' = NotifExchange("notif_list", u, 0, 200, "", Cardinality(found), found)
        /\ UNCHANGED socialVars

\* NotificationViewSet.retrieve; get_object looks the id up in get_queryset
NotifRetrieve(u, id) ==
    /\ resp' = IF \E r \in NotifQueryset(u) : r.id = id
               THEN NotifExchange("notif_retrieve", u, id, 200, "", 1,
                                  {r \in NotifQueryset(u) : r.id = id})
               ELSE NotifExchange("notif_retrieve", u, id, 404, "not_found", 0, {})
    /\ UNCHANGED socialVars

\* NotificationViewSet.mark_read
NotifMarkRead(u, id) ==
    LET S == {r \in NotifQueryset(u) : r.id = id}
    IN  IF S = {} THEN
            /\ resp' = NotifExchange("mark_read", u, id, 404, "not_found", 0, {})
            /\ UNCHANGED socialVars
        ELSE
            /\ notifications' = NotifSetRead(S, TRUE)
            /\ resp' = NotifExchange("mark_read", u, id, 200, "", 1,
                                     {[r EXCEPT !.is_read = TRUE] : r \in S})
            /\ NotifFrame

\* NotificationViewSet.mark_all_read; update() returns the rows it matched
NotifMarkAllRead(u) ==
    /\ notifications' = NotifSetRead(NotifUnread(u), TRUE)
    /\ resp' = NotifExchange("mark_all_read", u, 0, 200, "",
                             Cardinality(NotifUnread(u)), {})
    /\ NotifFrame

\* NotificationViewSet.unread_count
NotifUnreadCount(u) ==
    /\ resp' = NotifExchange("unread_count", u, 0, 200, "",
                             Cardinality(NotifUnread(u)), {})
    /\ UNCHANGED socialVars

BulkActions == {"mark_read", "mark_unread", "delete"}

\* BulkNotificationActionSerializer
BulkErrors(ids, act) ==
    {f \in {"notification_ids"} : ids = {} \/ \E i \in ids : i < 1}
    \cup {f \in {"action"} : act \notin BulkActions}

\* NotificationViewSet.bulk_action
NotifBulkAction(u, ids, act) ==
    LET S == {r \in NotifQueryset(u) : r.id \in ids}
    IN  IF BulkErrors(ids, act) # {} THEN
            /\ resp' = NotifExchange("bulk_action", u, 0, 400, "validation", 0, {})
            /\ UNCHANGED socialVars
        ELSE IF S = {} THEN
            /\ resp' = NotifExchange("bulk_action", u, 0, 404, "no_match", 0, {})
            /\ UNCHANGED socialVars
        ELSE
            /\ notifications' =
                 CASE act = "mark_read" -> NotifSetRead(S, TRUE)
                   [] act = "mark_unread" -> NotifSetRead(S, FALSE)
                   [] OTHER -> NotifDelete(S)
            /\ resp' = NotifExchange("bulk_action", u, 0, 200, act, Cardinality(S), {})
            /\ NotifFrame

\* NotificationViewSet.clear_all
NotifClearAll(u) ==
    /\ notifications' = NotifDelete(NotifQueryset(u))
    /\ resp' = NotifExchange("clear_all", u, 0, 200, "",
                             Cardinality(NotifQueryset(u)), {})
    /\ NotifFrame

\* an empty library, for the specifications that leave the Book API alone
CommentsIdle == comments = <<>> /\ nextCommentId = 1

BooksIdle ==
    /\ authors = <<>>
    /\ nextAuthorId = 1
    /\ books = <<>>
    /\ nextBookId = 1

(***************************************************************************)
(* Specification of the like subsystem: posts exist, users like and unlike *)
(***************************************************************************)
InitLike ==
    /\ signalsConnected \in SignalWirings
    /\ posts \in [PostIds -> [author : Users, content : {"a"}]]
    /\ nextPostId = MaxPosts + 1
    /\ likeRows = EmptyBag
    /\ prefs = [u \in Users |-> NoPref]
    /\ notifications = EmptyBag
    /\ follows = {}
    /\ CommentsIdle
    /\ BooksIdle
    /\ AppsIdle
    /\ resp = NoResp

NextLike ==
    \/ \E u \in Users, p \in PostInputs : Like(u, p) /\ UNCHANGED <<bookVars, appVars>>
    \/ \E u \in Users, p \in PostInputs : Unlike(u, p) /\ UNCHANGED <<bookVars, appVars>>
    \/ \E u \in Users, v \in BOOLEAN : PreferenceUpdate(u, v) /\ UNCHANGED <<bookVars, appVars>>

SpecLike == InitLike /\ [][NextLike]_vars

(***************************************************************************)
(* Specification of post management: posts with likes are created,         *)
(* updated and destroyed                                                   *)
(***************************************************************************)
InitPost ==
    /\ signalsConnected \in SignalWirings
    /\ posts \in [PostIds -> [author : Users, content : {"a"}]]
    /\ nextPostId = MaxPosts + 1
    /\ likeRows \in {SetToBag(S) : S \in SUBSET (Users \X PostIds)}
    /\ prefs = [u \in Users |-> NoPref]
    /\ notifications = EmptyBag
    /\ follows = {}
    /\ CommentsIdle
    /\ BooksIdle
    /\ AppsIdle
    /\ resp = NoResp

NextPost ==
    \/ \E u \in Users, pl \in PostPayloads : PostCreate(u, pl) /\ UNCHANGED <<bookVars, appVars>>
    \/ \E u \in Users, p \in PostInputs, partial \in BOOLEAN, pl \in PostPayloads :
          PostUpdate(u, p, partial, pl) /\ UNCHANGED <<bookVars, appVars>>
    \/ \E u \in Users, p \in PostInputs : PostDestroy(u, p) /\ UNCHANGED <<bookVars, appVars>>

SpecPost == InitPost /\ [][NextPost]_vars

(***************************************************************************)
(* Specification of the follow graph                                       *)
(***************************************************************************)
InitFollow ==
    /\ signalsConnected \in SignalWirings
    /\ posts = <<>>
    /\ nextPostId = 1
    /\ likeRows = EmptyBag
    /\ prefs = [u \in Users |-> NoPref]
    /\ notifications = EmptyBag
    /\ follows = {}
    /\ CommentsIdle
    /\ BooksIdle
    /\ AppsIdle
    /\ resp = NoResp

NextFollow ==
    \/ \E u \in Users, t \in UserInputs : Follow(u, t) /\ UNCHANGED <<bookVars, appVars>>
    \/ \E u \in Users, t \in UserInputs : Unfollow(u, t) /\ UNCHANGED <<bookVars, appVars>>
    \/ \E u \in Users, t \in UserInputs : FollowUserView(u, t) /\ UNCHANGED <<bookVars, appVars>>
    \/ \E u \in Users, t \in UserInputs : UnfollowUserView(u, t) /\ UNCHANGED <<bookVars, appVars>>

SpecFollow == InitFollow /\ [][NextFollow]_vars

(***************************************************************************)
(* Specification of commenting: posts with comments exist; users comment   *)
(* and reply through the endpoint, comments are saved through the ORM, and *)
(* users change their preferences                                          *)
(***************************************************************************)
InitComment ==
    /\ signalsConnected \in SignalWirings
    /\ posts \in [PostIds -> [author : Users, content : {"a"}]]
    /\ nextPostId = MaxPosts + 1
    /\ likeRows = EmptyBag
    /\ prefs = [u \in Users |-> NoPref]
    /\ notifications = EmptyBag
    /\ follows = {}
    /\ comments \in UNION {[1..k -> [author : Users, post : PostIds]] : k \in 0..1}
    /\ nextCommentId = Len(comments) + 1
    /\ BooksIdle
    /\ AppsIdle
    /\ resp = NoResp

NextComment ==
    \/ \E u \in Users, p \in PostInputs, content \in CommentContents, parent \in ParentInputs :
          PostComment(u, p, content, parent) /\ UNCHANGED <<bookVars, appVars>>
    \/ \E u \in Users, p \in PostIds, parent \in 0..1 :
          CommentCreate(u, p, parent) /\ UNCHANGED <<bookVars, appVars>>
    \/ \E u \in Users, v \in BOOLEAN : PreferenceUpdate(u, v) /\ UNCHANGED <<bookVars, appVars>>

SpecComment == InitComment /\ [][NextComment]_vars

(***************************************************************************)
(* Specification of the notification endpoints: notifications of several   *)
(* recipients exist, read and unread; users list, read, mark and delete    *)
(***************************************************************************)
\* the user whose action a notification of recipient u reports
ActorFor(u) == IF u = "u1" THEN "u2" ELSE "u1"

NotifTables ==
    UNION {{SetToBag({NotifRecord(i, f[i].recipient, ActorFor(f[i].recipient),
                                  "like", f[i].is_read) : i \in 1..k}) :
               f \in [1..k -> [recipient : Users, is_read : BOOLEAN]]} :
           k \in 0..MaxNotifs}

InitNotify ==
    /\ signalsConnected \in SignalWirings
    /\ posts = <<[author |-> "u1", content |-> "a"]>>
    /\ nextPostId = 2
    /\ likeRows = EmptyBag
    /\ prefs = [u \in Users |-> NoPref]
    /\ notifications \in NotifTables
    /\ follows = {}
    /\ CommentsIdle
    /\ BooksIdle
    /\ AppsIdle
    /\ resp = NoResp

NextNotify ==
    \/ \E u \in Users, unread \in {"absent", "true", "false"}, verb \in {""} \cup NotifVerbs :
          NotifList(u, unread, verb) /\ UNCHANGED <<bookVars, appVars>>
    \/ \E u \in Users, id \in NotifIdInputs : NotifRetrieve(u, id) /\ UNCHANGED <<bookVars, appVars>>
    \/ \E u \in Users, id \in NotifIdInputs : NotifMarkRead(u, id) /\ UNCHANGED <<bookVars, appVars>>
    \/ \E u \in Users : NotifMarkAllRead(u) /\ UNCHANGED <<bookVars, appVars>>
    \/ \E u \in Users : NotifUnreadCount(u) /\ UNCHANGED <<bookVars, appVars>>
    \/ \E u \in Users, ids \in (SUBSET NotifIds) \cup {{0}}, act \in BulkActions \cup {"bogus"} :
          NotifBulkAction(u, ids, act) /\ UNCHANGED <<bookVars, appVars>>
    \/ \E u \in Users : NotifClearAll(u) /\ UNCHANGED <<bookVars, appVars>>

SpecNotify == InitNotify /\ [][NextNotify]_vars

(***************************************************************************)
(* advanced-api-project: Book and Author CRUD                              *)
(* Text values are sequences of characters; a payload names the fields it  *)
(* carries in `has`.                                                       *)
(***************************************************************************)
CurrentYear == 2026
TitleMaxLength == 200
UnauthenticatedStatus == 403

\* str.strip() as CharField(trim_whitespace=True).to_internal_value applies it
RECURSIVE StripLeft(_)
StripLeft(t) == IF t # <<>> /\ Head(t) = " " THEN StripLeft(Tail(t)) ELSE t

RECURSIVE StripRight(_)
StripRight(t) ==
    IF t # <<>> /\ t[Len(t)] = " " THEN StripRight(SubSeq(t, 1, Len(t) - 1)) ELSE t

Strip(t) == StripRight(StripLeft(t))

TitleInternalRaw(t) == t

\* to_internal_value of the serializer's CharField for title and name
TitleInternal(t) == Strip(t)

TitleInputs == {<<" ">>, <<"a">>, <<" ", "a", " ">>}
YearInputs == (CurrentYear - 1)..(CurrentYear + 1)
AuthorInputs == 0..MaxAuthors
BookInputs == 0..MaxBooks
BookFields == {"title", "publication_year", "author"}

FieldSets == {BookFields, {"publication_year"}, {"title", "author"}}

\* request bodies; a field outside `has` is not sent (its slot holds a filler)
BookPayloads ==
    {pl \in [has : FieldSets, title : TitleInputs \cup {<<>>},
             publication_year : YearInputs \cup {0}, author : AuthorInputs] :
        /\ ("title" \in pl.has) = (pl.title # <<>>)
        /\ ("publication_year" \in pl.has) = (pl.publication_year # 0)
        /\ "author" \notin pl.has => pl.author = 0}

NameInputs == {<<" ">>, <<"n">>}
AuthorPayloads == {pl \in [has : SUBSET {"name"}, name : NameInputs \cup {<<>>}] :
                      ("name" \in pl.has) = (pl.name # <<>>)}

AllowAny(auth) == TRUE

\* permission_classes = [IsAuthenticated], checked by APIView.initial before
\* the handler (and so before the serializer) runs
IsAuthenticated(auth) == auth

\* the last request and the response it got
Exchange(op, auth, id, partial, pl, status, kind, errors, data) ==
    [op |-> op, auth |-> auth, id |-> id, partial |-> partial, payload |-> pl,
     status |-> status, kind |-> kind, errors |-> errors, data |-> data]

\* NotAuthenticated raised by APIView.permission_denied
NotAuthenticated(op, auth, id, partial, pl) ==
    Exchange(op, auth, id, partial, pl,
             UnauthenticatedStatus, "not_authenticated", {}, {})

NoPayload == [has |-> {}]

YearNotPast(value) == value >= CurrentYear

\* BookSerializer.validate_publication_year
YearInFuture(value) == value > CurrentYear

\* the fields BookSerializer(data=..., partial=...).is_valid() rejects
BookErrors(pl, partial) ==
    {f \in BookFields : f \notin pl.has /\ ~partial}
    \cup {f \in {"title"} \cap pl.has :
            \/ TitleInternal(pl.title) = <<>>
            \/ Len(TitleInternal(pl.title)) > TitleMaxLength}
    \cup {f \in {"publication_year"} \cap pl.has :
            YearInFuture(pl.publication_year)}
    \cup {f \in {"author"} \cap pl.has : pl.author \notin DOMAIN authors}

\* serializer.validated_data
BookValidated(pl) ==
    [title |-> TitleInternal(pl.title),
     publication_year |-> pl.publication_year,
     author |-> pl.author]

\* BookSerializer.to_representation
SerializeBook(tbl, id) ==
    [id |-> id, title |-> tbl[id].title,
     publication_year |-> tbl[id].publication_year, author |-> tbl[id].author]

\* BookDetailView: GET books/<pk>/
RetrieveBook(tbl, id) ==
    IF id \in DOMAIN tbl THEN {SerializeBook(tbl, id)} ELSE {}

BookRetrieve(auth, id) ==
    /\ resp' = IF id \in DOMAIN books
               THEN Exchange("book_retrieve", auth, id, FALSE, NoPayload, 200, "", {},
                             RetrieveBook(books, id))
               ELSE Exchange("book_retrieve", auth, id, FALSE, NoPayload, 404, "not_found", {}, {})
    /\ UNCHANGED <<appVars, socialVars, bookVars>>

\* BookCreateView.create / perform_create
BookCreate(auth, pl) ==
    IF ~IsAuthenticated(auth) THEN
        /\ resp' = NotAuthenticated("book_create", auth, 0, FALSE, pl)
        /\ UNCHANGED <<appVars, socialVars, bookVars>>
    ELSE IF BookErrors(pl, FALSE) # {} THEN
        /\ resp' = Exchange("book_create", auth, 0, FALSE, pl, 400, "validation",
                                BookErrors(pl, FALSE), {})
        /\ UNCHANGED <<appVars, socialVars, bookVars>>
    ELSE
        /\ nextBookId <= MaxBooks
        /\ books' = [b \in DOMAIN books \cup {nextBookId} |->
                        IF b = nextBookId THEN BookValidated(pl) ELSE books[b]]
        /\ nextBookId' = nextBookId + 1
        /\ resp' = Exchange("book_create", auth, 0, FALSE, pl, 201, "", {},
                                {SerializeBook(books', nextBookId)})
        /\ UNCHANGED <<appVars, socialVars, authors, nextAuthorId>>

\* ModelSerializer.update: the validated fields are set, the others kept
BookApplyAll(book, pl) == BookValidated(pl)

BookApply(book, pl) ==
    [title |-> IF "title" \in pl.has THEN TitleInternal(pl.title) ELSE book.title,
     publication_year |-> IF "publication_year" \in pl.has
                          THEN pl.publication_year ELSE book.publication_year,
     author |-> IF "author" \in pl.has THEN pl.author ELSE book.author]

\* BookUpdateView.update / perform_update (PUT: partial = FALSE, PATCH: TRUE)
BookUpdate(auth, id, partial, pl) ==
    IF ~IsAuthenticated(auth) THEN
        /\ resp' = NotAuthenticated("book_update", auth, id, partial, pl)
        /\ UNCHANGED <<appVars, socialVars, bookVars>>
    ELSE IF id \notin DOMAIN books THEN
        /\ resp' = Exchange("book_update", auth, id, partial, pl, 404, "not_found", {}, {})
        /\ UNCHANGED <<appVars, socialVars, bookVars>>
    ELSE IF BookErrors(pl, partial) # {} THEN
        /\ resp' = Exchange("book_update", auth, id, partial, pl, 400, "validation",
                                BookErrors(pl, partial), {})
        /\ UNCHANGED <<appVars, socialVars, bookVars>>
    ELSE
        /\ books' = [books EXCEPT ![id] = BookApply(books[id], pl)]
        /\ resp' = Exchange("book_update", auth, id, partial, pl, 200, "", {},
                                {SerializeBook(books', id)})
        /\ UNCHANGED <<appVars, socialVars, authors, nextAuthorId, nextBookId>>

\* BookDeleteView (DestroyAPIView.destroy)
BookDelete(auth, id) ==
    IF ~IsAuthenticated(auth) THEN
        /\ resp' = NotAuthenticated("book_delete", auth, id, FALSE, NoPayload)
        /\ UNCHANGED <<appVars, socialVars, bookVars>>
    ELSE IF id \notin DOMAIN books THEN
        /\ resp' = Exchange("book_delete", auth, id, FALSE, NoPayload, 404, "not_found", {}, {})
        /\ UNCHANGED <<appVars, socialVars, bookVars>>
    ELSE
        /\ books' = [b \in DOMAIN books \ {id} |-> books[b]]
        /\ resp' = Exchange("book_delete", auth, id, FALSE, NoPayload, 204, "", {}, {})
        /\ UNCHANGED <<appVars, socialVars, authors, nextAuthorId, nextBookId>>

\* the fields AuthorSerializer(data=..., partial=...).is_valid() rejects
AuthorErrors(pl, partial) ==
    {f \in {"name"} : f \notin pl.has /\ ~partial}
    \cup {f \in {"name"} \cap pl.has :
            \/ TitleInternal(pl.name) = <<>>
            \/ Len(TitleInternal(pl.name)) > TitleMaxLength}

\* AuthorCreateView.perform_create
AuthorCreate(auth, pl) ==
    IF ~IsAuthenticated(auth) THEN
        /\ resp' = NotAuthenticated("author_create", auth, 0, FALSE, pl)
        /\ UNCHANGED <<appVars, socialVars, bookVars>>
    ELSE IF AuthorErrors(pl, FALSE) # {} THEN
        /\ resp' = Exchange("author_create", auth, 0, FALSE, pl, 400, "validation",
                                AuthorErrors(pl, FALSE), {})
        /\ UNCHANGED <<appVars, socialVars, bookVars>>
    ELSE
        /\ nextAuthorId <= MaxAuthors
        /\ authors' = [a \in DOMAIN authors \cup {nextAuthorId} |->
                          IF a = nextAuthorId
                          THEN [name |-> TitleInternal(pl.name)] ELSE authors[a]]
        /\ nextAuthorId' = nextAuthorId + 1
        /\ resp' = Exchange("author_create", auth, 0, FALSE, pl, 201, "", {}, {})
        /\ UNCHANGED <<appVars, socialVars, books, nextBookId>>

\* AuthorUpdateView.perform_update
AuthorUpdate(auth, id, partial, pl) ==
    IF ~IsAuthenticated(auth) THEN
        /\ resp' = NotAuthenticated("author_update", auth, id, partial, pl)
        /\ UNCHANGED <<appVars, socialVars, bookVars>>
    ELSE IF id \notin DOMAIN authors THEN
        /\ resp' = Exchange("author_update", auth, id, partial, pl, 404, "not_found", {}, {})
        /\ UNCHANGED <<appVars, socialVars, bookVars>>
    ELSE IF AuthorErrors(pl, partial) # {} THEN
        /\ resp' = Exchange("author_update", auth, id, partial, pl, 400, "validation",
                                AuthorErrors(pl, partial), {})
        /\ UNCHANGED <<appVars, socialVars, bookVars>>
    ELSE
        /\ authors' = [authors EXCEPT ![id] =
                          IF "name" \in pl.has
                          THEN [name |-> TitleInternal(pl.name)] ELSE @]
        /\ resp' = Exchange("author_update", auth, id, partial, pl, 200, "", {}, {})
        /\ UNCHANGED <<appVars, socialVars, nextAuthorId, books, nextBookId>>

BooksAllKept(tbl, id) == tbl

\* on_delete=CASCADE of Book.author
BooksWithoutAuthor(tbl, id) ==
    [b \in {x \in DOMAIN tbl : tbl[x].author # id} |-> tbl[b]]

\* AuthorDeleteView (DestroyAPIView.destroy)
AuthorDelete(auth, id) ==
    IF ~IsAuthenticated(auth) THEN
        /\ resp' = NotAuthenticated("author_delete", auth, id, FALSE, NoPayload)
        /\ UNCHANGED <<appVars, socialVars, bookVars>>
    ELSE IF id \notin DOMAIN authors THEN
        /\ resp' = Exchange("author_delete", auth, id, FALSE, NoPayload, 404, "not_found", {}, {})
        /\ UNCHANGED <<appVars, socialVars, bookVars>>
    ELSE
        /\ authors' = [a \in DOMAIN authors \ {id} |-> authors[a]]
        /\ books' = BooksWithoutAuthor(books, id)
        /\ resp' = Exchange("author_delete", auth, id, FALSE, NoPayload, 204, "", {}, {})
        /\ UNCHANGED <<appVars, socialVars, nextAuthorId, nextBookId>>

(***************************************************************************)
(* BookListView: GET books/ with filters, ordering and pagination          *)
(* A query names the parameters it carries in `has`; a numeric parameter   *)
(* is the text sent, parsed (ok) or not.                                   *)
(***************************************************************************)
PageSize == 10

Num(n) == [ok |-> TRUE, n |-> n]
NaN == [ok |-> FALSE, n |-> 0]
NoOrdering == [desc |-> FALSE, field |-> ""]

NoQuery ==
    [has |-> {}, title |-> <<>>, author_name |-> <<>>,
     publication_year |-> NaN, publication_year_min |-> NaN,
     publication_year_max |-> NaN, author |-> NaN, year_min |-> NaN,
     year_max |-> NaN, ordering |-> NoOrdering, page |-> NaN]

\* str.lower() on the characters the model uses
Lower(c) == CASE c = "A" -> "a" [] c = "B" -> "b" [] c = "N" -> "n" [] OTHER -> c

LowerText(t) == [i \in DOMAIN t |-> Lower(t[i])]

\* the icontains lookup: case-insensitive substring
IContains(hay, needle) ==
    \E i \in 0..(Len(hay) - Len(needle)) :
        SubSeq(LowerText(hay), i + 1, i + Len(needle)) = LowerText(needle)

\* forms.CharField(strip=True).clean of a CharFilter value
CharFilterValue(t) == Strip(t)

\* get_queryset: filter(author__id=author_id) raises ValueError when the
\* text is no integer; nothing catches it
LegacyAuthorCrash(q) == "author" \in q.has /\ ~q.author.ok

\* get_queryset: the legacy parameters author, year_min, year_max; a year
\* that int() rejects is skipped
LegacyMatch(q, b) ==
    /\ "author" \in q.has => books[b].author = q.author.n
    /\ ("year_min" \in q.has /\ q.year_min.ok) =>
          books[b].publication_year >= q.year_min.n
    /\ ("year_max" \in q.has /\ q.year_max.ok) =>
          books[b].publication_year <= q.year_max.n

NumberFilters == {"publication_year", "publication_year_min", "publication_year_max"}

\* BookFilterSet.is_valid(): the NumberFilter fields whose text is no number
FilterErrors(q) == {f \in NumberFilters \cap q.has : ~q[f].ok}

FilterSetMatchAny(q, b) ==
    \/ "title" \in q.has /\ IContains(books[b].title, CharFilterValue(q.title))
    \/ "author_name" \in q.has /\
          IContains(authors[books[b].author].name, CharFilterValue(q.author_name))
    \/ "publication_year" \in q.has /\
          books[b].publication_year = q.publication_year.n
    \/ "publication_year_min" \in q.has /\
          books[b].publication_year >= q.publication_year_min.n
    \/ "publication_year_max" \in q.has /\
          books[b].publication_year <= q.publication_year_max.n
    \/ q.has \cap {"title", "author_name", "publication_year",
                   "publication_year_min", "publication_year_max"} = {}

\* BookFilterSet.filter_queryset: every supplied, non-empty filter applies
FilterSetMatch(q, b) ==
    /\ ("title" \in q.has /\ CharFilterValue(q.title) # <<>>) =>
          IContains(books[b].title, CharFilterValue(q.title))
    /\ ("author_name" \in q.has /\ CharFilterValue(q.author_name) # <<>>) =>
          IContains(authors[books[b].author].name, CharFilterValue(q.author_name))
    /\ "publication_year" \in q.has =>
          books[b].publication_year = q.publication_year.n
    /\ "publication_year_min" \in q.has =>
          books[b].publication_year >= q.publication_year_min.n
    /\ "publication_year_max" \in q.has =>
          books[b].publication_year <= q.publication_year_max.n

\* ids of the rows of filter_queryset(get_queryset()) before ordering
Matching(q) == {b \in DOMAIN books : LegacyMatch(q, b) /\ FilterSetMatch(q, b)}

OrderingFields == {"title", "publication_year", "author__name", "id"}
DefaultOrdering == [desc |-> TRUE, field |-> "publication_year"]

\* OrderingFilter.get_ordering: a term that names no declared field is
\* dropped, and with no term left the view's default ordering is used
EffectiveOrdering(q) ==
    IF "ordering" \in q.has /\ q.ordering.field \in OrderingFields
    THEN q.ordering ELSE DefaultOrdering

\* code points of the characters the model uses
Code(c) ==
    CASE c = " " -> 32 [] c = "A" -> 65 [] c = "B" -> 66 [] c = "N" -> 78
      [] c = "a" -> 97 [] c = "b" -> 98 [] c = "n" -> 110 [] OTHER -> 120

\* ORDER BY on text: lexicographic by code point
RECURSIVE TextLess(_, _)
TextLess(s, t) ==
    IF t = <<>> THEN FALSE
    ELSE IF s = <<>> THEN TRUE
    ELSE IF Code(Head(s)) # Code(Head(t)) THEN Code(Head(s)) < Code(Head(t))
    ELSE TextLess(Tail(s), Tail(t))

\* row x sorts strictly before row y in ascending order of field f
KeyLess(f, x, y) ==
    CASE f = "title" -> TextLess(books[x].title, books[y].title)
      [] f = "publication_year" -> books[x].publication_year < books[y].publication_year
      [] f = "author__name" ->
            TextLess(authors[books[x].author].name, authors[books[y].author].name)
      [] OTHER -> x < y

PrecedesAscending(ord, x, y) == KeyLess(ord.field, x, y)

\* ordering=f sorts ascending, ordering=-f descending
Precedes(ord, x, y) ==
    IF ord.desc THEN KeyLess(ord.field, y, x) ELSE KeyLess(ord.field, x, y)

\* queryset.order_by(field): every sequence of the rows S in which no row
\* comes after one it precedes; rows with equal keys come in any order
RECURSIVE Orderings(_, _)
Orderings(S, ord) ==
    IF S = {} THEN {<<>>}
    ELSE UNION {{<<x>> \o rest : rest \in Orderings(S \ {x}, ord)} :
                  x \in {y \in S : \A z \in S : ~Precedes(ord, z, y)}}

\* the page parameter; absent means page 1
PageNumber(q) == IF "page" \in q.has THEN q.page ELSE Num(1)

NumPagesFloor(count) == IF count = 0 THEN 1 ELSE count \div PageSize

\* Paginator.num_pages with allow_empty_first_page
NumPages(count) ==
    IF count = 0 THEN 1 ELSE (count + PageSize - 1) \div PageSize

InvalidPageLow(q, count) == ~PageNumber(q).ok \/ PageNumber(q).n < 1

\* PageNumberPagination.paginate_queryset raises NotFound for these
InvalidPage(q, count) ==
    \/ ~PageNumber(q).ok
    \/ PageNumber(q).n < 1
    \/ PageNumber(q).n > NumPages(count)

\* Paginator.page(number).object_list
PageSlice(seq, n) ==
    SubSeq(seq, (n - 1) * PageSize + 1,
           IF n * PageSize < Len(seq) THEN n * PageSize ELSE Len(seq))

ListFailure(q, status, kind, errors) ==
    [op |-> "book_list", query |-> q, status |-> status, kind |-> kind,
     errors |-> errors, count |-> 0, next |-> FALSE, previous |-> FALSE,
     results |-> <<>>]

\* PageNumberPagination.get_paginated_response
ListPage(q, seq) ==
    [op |-> "book_list", query |-> q, status |-> 200, kind |-> "",
     errors |-> {}, count |-> Len(seq),
     next |-> PageNumber(q).n < NumPages(Len(seq)),
     previous |-> PageNumber(q).n > 1,
     results |-> PageSlice(seq, PageNumber(q).n)]

\* ListAPIView.list of BookListView
BookList(q) ==
    /\ IF LegacyAuthorCrash(q) THEN
           resp' = ListFailure(q, 500, "ValueError", {})
       ELSE IF FilterErrors(q) # {} THEN
           resp' = ListFailure(q, 400, "validation", FilterErrors(q))
       ELSE IF InvalidPage(q, Cardinality(Matching(q))) THEN
           resp' = ListFailure(q, 404, "invalid_page", {})
       ELSE
           \E seq \in Orderings(Matching(q), EffectiveOrdering(q)) :
               resp' = ListPage(q, seq)
    /\ UNCHANGED <<appVars, socialVars, bookVars>>

\* an empty social network, for the specification of the Book API
SocialIdle ==
    /\ signalsConnected = FALSE
    /\ posts = <<>>
    /\ nextPostId = 1
    /\ likeRows = EmptyBag
    /\ prefs = [u \in Users |-> NoPref]
    /\ notifications = EmptyBag
    /\ follows = {}
    /\ CommentsIdle

(***************************************************************************)
(* Specification of the Book API                                           *)
(***************************************************************************)
InitBook ==
    /\ SocialIdle
    /\ authors = <<>>
    /\ nextAuthorId = 1
    /\ books = <<>>
    /\ nextBookId = 1
    /\ AppsIdle
    /\ resp = NoResp

NextBook ==
    \/ \E auth \in BOOLEAN, id \in BookInputs : BookRetrieve(auth, id)
    \/ \E auth \in BOOLEAN, pl \in BookPayloads : BookCreate(auth, pl)
    \/ \E auth \in BOOLEAN, id \in BookInputs, partial \in BOOLEAN, pl \in BookPayloads :
          BookUpdate(auth, id, partial, pl)
    \/ \E auth \in BOOLEAN, id \in BookInputs : BookDelete(auth, id)
    \/ \E auth \in BOOLEAN, pl \in AuthorPayloads : AuthorCreate(auth, pl)
    \/ \E auth \in BOOLEAN, id \in AuthorInputs, partial \in BOOLEAN, pl \in AuthorPayloads :
          AuthorUpdate(auth, id, partial, pl)
    \/ \E auth \in BOOLEAN, id \in AuthorInputs : AuthorDelete(auth, id)

SpecBook == InitBook /\ [][NextBook]_vars

(***************************************************************************)
(* Partial updates on a shelf of several books: every book starts as the   *)
(* same row and authenticated PATCH requests send some of the fields       *)
(***************************************************************************)
PatchPayloads == {pl \in BookPayloads : pl.has # BookFields}

InitPatch ==
    /\ SocialIdle
    /\ authors = [a \in 1..MaxAuthors |-> [name |-> <<"n">>]]
    /\ nextAuthorId = MaxAuthors + 1
    /\ books = [i \in 1..MaxShelf |->
                   [title |-> <<"b">>, publication_year |-> CurrentYear - 1, author |-> 1]]
    /\ nextBookId = MaxShelf + 1
    /\ AppsIdle
    /\ resp = NoResp

NextPatch ==
    \E id \in 0..MaxShelf, pl \in PatchPayloads : BookUpdate(TRUE, id, TRUE, pl)

SpecPatch == InitPatch /\ [][NextPatch]_vars

(***************************************************************************)
(* Specification of the Book list: a stored shelf and list requests        *)
(***************************************************************************)
DeclaredFilters == {"title", "author_name", "publication_year",
                    "publication_year_min", "publication_year_max"}
LegacyFilters == {"author", "year_min", "year_max"}

ShelfRows == [title : {<<"a">>, <<"A", "b">>},
              publication_year : {CurrentYear - 2, CurrentYear},
              author : {1}]

\* a request with the parameters h, each with the value given for it
Query(h, t, ymax, ord, pg) ==
    [has |-> h,
     title |-> IF "title" \in h THEN t ELSE <<>>,
     author_name |-> IF "author_name" \in h THEN <<"N">> ELSE <<>>,
     publication_year |-> IF "publication_year" \in h THEN Num(CurrentYear) ELSE NaN,
     publication_year_min |->
         IF "publication_year_min" \in h THEN Num(CurrentYear) ELSE NaN,
     publication_year_max |-> IF "publication_year_max" \in h THEN ymax ELSE NaN,
     author |-> IF "author" \in h THEN Num(1) ELSE NaN,
     year_min |-> IF "year_min" \in h THEN Num(CurrentYear) ELSE NaN,
     year_max |-> IF "year_max" \in h THEN Num(CurrentYear - 2) ELSE NaN,
     ordering |-> IF "ordering" \in h THEN ord ELSE NoOrdering,
     page |-> IF "page" \in h THEN pg ELSE NaN]

TitleFilterInputs == {<<"a">>, <<" ", "b">>}
YearMaxInputs == {Num(CurrentYear - 2), Num(CurrentYear)}

FilterQueries ==
    {Query(h, t, ymax, NoOrdering, NaN) :
        h \in SUBSET DeclaredFilters, t \in TitleFilterInputs, ymax \in YearMaxInputs}

LegacyQueries ==
    {Query(h, <<>>, NaN, NoOrdering, NaN) : h \in SUBSET LegacyFilters}

\* one numeric parameter carries text that is no number
UnparsedQueries ==
    {[Query({f} \cup h, <<"a">>, NaN, NoOrdering, NaN) EXCEPT ![f] = NaN] :
        f \in NumberFilters \cup LegacyFilters, h \in {{}, {"title"}}}

OrderingInputs == [desc : BOOLEAN, field : OrderingFields \cup {"bogus"}]

OrderQueries ==
    {Query({"ordering"} \cup h, <<"a">>, NaN, ord, NaN) :
        ord \in OrderingInputs, h \in {{}, {"title"}}}

ListQueries == FilterQueries \cup LegacyQueries \cup UnparsedQueries \cup OrderQueries

InitList ==
    /\ SocialIdle
    /\ authors = [a \in 1..MaxAuthors |-> [name |-> <<"n">>]]
    /\ nextAuthorId = MaxAuthors + 1
    /\ books \in UNION {[1..k -> ShelfRows] : k \in 0..MaxShelf}
    /\ nextBookId = Len(books) + 1
    /\ AppsIdle
    /\ resp = NoResp

NextList == \E q \in ListQueries : BookList(q)

SpecList == InitList /\ [][NextList]_vars

(***************************************************************************)
(* The list endpoint over shelves of up to three pages.  Book i was        *)
(* published in year CurrentYear - i, so that every ordering used here     *)
(* ranks the books without ties.                                           *)
(***************************************************************************)
PageShelf(n) ==
    [i \in 1..n |-> [title |-> <<"a">>, publication_year |-> CurrentYear - i,
                     author |-> 1]]

PageInputs == {Num(n) : n \in -1..4} \cup {NaN}
PageOrderings == {[desc |-> d, field |-> f] : d \in BOOLEAN, f \in {"id", "publication_year"}}
PageYearMax == Num(CurrentYear - 12)

PageQueries ==
    {Query(h, <<>>, PageYearMax, ord, pg) :
        h \in SUBSET {"publication_year_max", "ordering", "page"},
        ord \in PageOrderings, pg \in PageInputs}

InitPage ==
    /\ SocialIdle
    /\ authors = [a \in 1..MaxAuthors |-> [name |-> <<"n">>]]
    /\ nextAuthorId = MaxAuthors + 1
    /\ books \in {PageShelf(n) : n \in 0..MaxPageShelf}
    /\ nextBookId = Len(books) + 1
    /\ AppsIdle
    /\ resp = NoResp

NextPage == \E q \in PageQueries : BookList(q)

SpecPage == InitPage /\ [][NextPage]_vars

(***************************************************************************)
(* Specification of cascading deletes.  The two projects are separate      *)
(* deployments with separate databases: a behaviour is a run of one of     *)
(* them, the tables of the other stay idle.                                *)
(***************************************************************************)
CascadePosts == 1..(MaxPosts + 1)
CascadeAuthors == 1..(MaxAuthors + 1)
CascadeBooks == 1..(MaxBooks + 1)

\* Comment tables with up to MaxComments rows on the posts P
CommentTables(P) ==
    UNION {[1..k -> [author : Users, post : P]] : k \in 0..MaxComments}

\* updates that move a book to another author
ReassignPayloads ==
    {pl \in BookPayloads : pl.has = {"title", "author"} /\ pl.title = <<"a">>}

InitCascadePosts ==
    /\ signalsConnected \in SignalWirings
    /\ posts \in [CascadePosts -> [author : Users, content : {"a"}]]
    /\ nextPostId = MaxPosts + 2
    /\ likeRows = EmptyBag
    /\ prefs = [u \in Users |-> NoPref]
    /\ notifications = EmptyBag
    /\ follows = {}
    /\ comments \in CommentTables(CascadePosts)
    /\ nextCommentId = Len(comments) + 1
    /\ BooksIdle
    /\ AppsIdle
    /\ resp = NoResp

InitCascadeBooks ==
    /\ SocialIdle
    /\ authors = [a \in CascadeAuthors |-> [name |-> <<"n">>]]
    /\ nextAuthorId = MaxAuthors + 2
    /\ books \in [CascadeBooks -> [title : {<<"a">>},
                                   publication_year : {CurrentYear},
                                   author : CascadeAuthors]]
    /\ nextBookId = MaxBooks + 2
    /\ AppsIdle
    /\ resp = NoResp

InitCascade == InitCascadePosts \/ InitCascadeBooks

NextCascade ==
    \/ /\ BooksIdle
       /\ \E u \in Users, p \in CascadePosts \cup {0} : PostDestroy(u, p)
       /\ UNCHANGED <<bookVars, appVars>>
    \/ /\ SocialIdle
       /\ \E auth \in BOOLEAN, id \in CascadeAuthors \cup {0} : AuthorDelete(auth, id)
    \/ /\ SocialIdle
       /\ \E auth \in BOOLEAN, id \in CascadeBooks \cup {0} : BookDelete(auth, id)
    \/ /\ SocialIdle
       /\ \E auth \in BOOLEAN, id \in CascadeBooks \cup {0}, partial \in BOOLEAN,
             pl \in ReassignPayloads : BookUpdate(auth, id, partial, pl)

SpecCascade == InitCascade /\ [][NextCascade]_vars

(***************************************************************************)
(* accounts: registration, login and logout with authtoken Tokens          *)
(***************************************************************************)
MaxKeys == 3
PasswordMinLength == 8

AuthNames == {"u1", "u2"}
Passwords == {[text |-> "p", len |-> PasswordMinLength - 1],
              [text |-> "q", len |-> PasswordMinLength],
              [text |-> "r", len |-> PasswordMinLength + 1]}
\* keys a request can carry; 0 is a key that was never issued
KeyInputs == 0..MaxKeys

\* the rows of a user in the Token table (Token.user is a OneToOneField)
TokensOf(n) == {t \in tokens : t.user = n}

TokenKeys == {t.key : t \in tokens}

\* keys that were handed out and whose row is gone
DeletedKeys == (1..(nextKey - 1)) \ TokenKeys

\* the user a request with `Authorization: Token <key>` is authenticated as
TokenUser(key) ==
    IF key \in TokenKeys THEN (CHOOSE t \in tokens : t.key = key).user
    ELSE "anonymous"

\* Token.objects.create(user=user): a row with a fresh key
TokenCreate(n) == tokens \cup {[user |-> n, key |-> nextKey]}

\* the lookup half of Token.objects.get_or_create(user=user)
TokenLookup(n) == TokensOf(n) # {}

\* Token.objects.get(user=request.user).delete()
TokenDeleteNone(n) == tokens

TokenDelete(n) == tokens \ TokensOf(n)

\* authenticate(username=..., password=...)
Authenticate(n, pw) == n \in DOMAIN accounts /\ accounts[n].password = pw

AuthExchange(op, n, key, status, error, token) ==
    [op |-> op, user |-> n, key |-> key, status |-> status, error |-> error,
     token |-> token]

\* UserRegistrationSerializer: field validators, then validate()
RegisterError(n, pw, confirm) ==
    IF n \in DOMAIN accounts THEN "username_taken"
    ELSE IF pw.len < PasswordMinLength THEN "password_too_short"
    ELSE IF pw # confirm THEN "password_mismatch"
    ELSE ""

\* UserRegistrationView.create
Register(n, pw, confirm) ==
    IF RegisterError(n, pw, confirm) # "" THEN
        /\ resp' = AuthExchange("register", n, 0, 400, RegisterError(n, pw, confirm), 0)
        /\ UNCHANGED authVars
    ELSE
        /\ nextKey <= MaxKeys
        /\ accounts' = [x \in DOMAIN accounts \cup {n} |->
                           IF x = n THEN [password |-> pw] ELSE accounts[x]]
        /\ tokens' = TokenCreate(n)
        /\ nextKey' = nextKey + 1
        \* Token.objects.get(user=user)
        /\ resp' = AuthExchange("register", n, 0, 201, "",
                                (CHOOSE t \in tokens' : t.user = n).key)

\* UserLoginView.create with UserLoginSerializer
Login(n, pw) ==
    IF ~Authenticate(n, pw) THEN
        /\ resp' = AuthExchange("login", n, 0, 400, "invalid_credentials", 0)
        /\ UNCHANGED authVars
    ELSE IF TokenLookup(n) THEN
        /\ resp' = AuthExchange("login", n, 0, 200, "",
                                (CHOOSE t \in tokens : t.user = n).key)
        /\ UNCHANGED authVars
    ELSE IF TokensOf(n) # {} THEN
        \* the insert violates the one-to-one constraint and the retry finds no
        \* row either
        /\ resp' = AuthExchange("login", n, 0, 500, "IntegrityError", 0)
        /\ UNCHANGED authVars
    ELSE
        /\ nextKey <= MaxKeys
        /\ tokens' = TokenCreate(n)
        /\ nextKey' = nextKey + 1
        /\ resp' = AuthExchange("login", n, 0, 200, "", nextKey)
        /\ UNCHANGED accounts

\* logout_view
Logout(key) ==
    IF TokenUser(key) = "anonymous" THEN
        /\ resp' = AuthExchange("logout", "anonymous", key, 401, "not_authenticated", 0)
        /\ UNCHANGED authVars
    ELSE IF TokensOf(TokenUser(key)) = {} THEN
        /\ resp' = AuthExchange("logout", TokenUser(key), key, 400, "token_not_found", 0)
        /\ UNCHANGED authVars
    ELSE
        /\ tokens' = TokenDelete(TokenUser(key))
        /\ resp' = AuthExchange("logout", TokenUser(key), key, 200, "", 0)
        /\ UNCHANGED <<accounts, nextKey>>

\* UserProfileView.retrieve: the profile of the authenticated user
ProfileRetrieve(key) ==
    /\ resp' = IF TokenUser(key) = "anonymous"
               THEN AuthExchange("profile", "anonymous", key, 401, "not_authenticated", 0)
               ELSE AuthExchange("profile", TokenUser(key), key, 200, "", 0)
    /\ UNCHANGED authVars

\* the user table at the start: empty, or one user created without a token
InitAuth ==
    /\ SocialIdle
    /\ BooksIdle
    /\ accounts \in {<<>>} \cup {[x \in {n} |-> [password |-> pw]] :
                                    n \in AuthNames, pw \in {q \in Passwords : q.len >= PasswordMinLength}}
    /\ tokens = {}
    /\ nextKey = 1
    /\ RaceIdle
    /\ BlogIdle
    /\ resp = NoResp

AuthFrame == UNCHANGED <<socialVars, bookVars, likeProcs, blogVars>>

NextAuth ==
    \/ \E n \in AuthNames, pw \in Passwords, confirm \in Passwords :
          Register(n, pw, confirm) /\ AuthFrame
    \/ \E n \in AuthNames, pw \in Passwords : Login(n, pw) /\ AuthFrame
    \/ \E key \in KeyInputs : Logout(key) /\ AuthFrame
    \/ \E key \in KeyInputs : ProfileRetrieve(key) /\ AuthFrame

SpecAuth == InitAuth /\ [][NextAuth]_vars

(***************************************************************************)
(* PostViewSet.like as two requests handled at the same time: every        *)
(* statement that reads or writes the database is a step of its own        *)
(***************************************************************************)
LikeWorkers == {1, 2}

IdleWorker == [pc |-> "idle", user |-> "", post |-> 0, overlap |-> FALSE,
               status |-> 0, error |-> "", likes_count |-> 0]

OtherWorker(i) == CHOOSE j \in LikeWorkers : j # i

InFlight(i) == likeProcs[i].pc \notin {"idle", "done"}

LikeAnswer(i, status, error, count) ==
    [op |-> "like", user |-> likeProcs[i].user, post |-> likeProcs[i].post,
     status |-> status, error |-> error, likes_count |-> count]

\* the worker answers and is done with its request
LikeFinish(i, status, error, count) ==
    /\ likeProcs' = [likeProcs EXCEPT ![i].pc = "done", ![i].status = status,
                                      ![i].error = error, ![i].likes_count = count]
    /\ resp' = LikeAnswer(i, status, error, count)

\* post = generics.get_object_or_404(Post, pk=id)
LikeStart(i, u, p) ==
    /\ likeProcs[i].pc = "idle"
    /\ IF ~PostExists(p) THEN
           /\ likeProcs' = [likeProcs EXCEPT ![i] =
                  [IdleWorker EXCEPT !.pc = "done", !.user = u, !.post = p,
                                     !.overlap = InFlight(OtherWorker(i)),
                                     !.status = 404, !.error = "not_found"]]
           /\ resp' = [op |-> "like", user |-> u, post |-> p, status |-> 404,
                       error |-> "not_found", likes_count |-> 0]
       ELSE
           /\ likeProcs' = [likeProcs EXCEPT ![i] =
                  [IdleWorker EXCEPT !.pc = "lookup", !.user = u, !.post = p,
                                     !.overlap = InFlight(OtherWorker(i))]]
           /\ UNCHANGED resp
    /\ UNCHANGED socialVars

\* get_or_create: self.get(**kwargs)
LikeGet(i) ==
    /\ likeProcs[i].pc = "lookup"
    /\ IF LikeLookup(likeProcs[i].user, likeProcs[i].post)
       THEN LikeFinish(i, 400, "already_liked", 0)
       ELSE likeProcs' = [likeProcs EXCEPT ![i].pc = "insert"] /\ UNCHANGED resp
    /\ UNCHANGED socialVars

\* get_or_create: self.create(**params) inside transaction.atomic, with the
\* post_save receiver; unique_together turns a second row into IntegrityError,
\* after which get_or_create fetches the row that is there
LikeInsert(i) ==
    LET u == likeProcs[i].user
        p == likeProcs[i].post
        author == posts[p].author
    IN  /\ likeProcs[i].pc = "insert"
        /\ IF CopiesIn(<<u, p>>, likeRows) > 0 THEN
               /\ LikeFinish(i, 400, "already_liked", 0)
               /\ UNCHANGED socialVars
           ELSE IF LikeSignalOutcome(u, p) = "AttributeError" THEN
               /\ LikeFinish(i, 500, "AttributeError", 0)
               /\ UNCHANGED socialVars
           ELSE
               /\ likeRows' = likeRows (+) SetToBag({<<u, p>>})
               /\ prefs' = IF LikeSignalOutcome(u, p) = "notify"
                           THEN [prefs EXCEPT ![author] =
                                    [exists |-> TRUE, notify_on_like |-> TRUE]]
                           ELSE prefs
               /\ notifications' =
                      NotifAdd(notifications,
                               IF LikeSignalOutcome(u, p) = "notify"
                               THEN <<NotifRow(author, u, "like", p)>> ELSE <<>>)
               /\ likeProcs' = [likeProcs EXCEPT ![i].pc = "respond"]
               /\ UNCHANGED <<commentVars, signalsConnected, posts, nextPostId,
                              follows, resp>>

\* the notification of the view and the 201 answer with post.likes.count()
LikeRespond(i) ==
    LET u == likeProcs[i].user
        p == likeProcs[i].post
        author == posts[p].author
    IN  /\ likeProcs[i].pc = "respond"
        /\ notifications' =
               NotifAdd(notifications,
                        IF LikeViewNotifies(u, p)
                        THEN <<NotifRow(author, u, "like", p)>> ELSE <<>>)
        /\ LikeFinish(i, 201, "", LikesCount(likeRows, p))
        /\ UNCHANGED <<commentVars, signalsConnected, posts, nextPostId,
                       likeRows, prefs, follows>>

\* posts exist, one user may have a NotificationPreference row already, and
\* two workers wait for a request each
RacePrefs ==
    {[u \in Users |-> NoPref]}
    \cup {[u \in Users |-> IF u = a THEN [exists |-> TRUE, notify_on_like |-> TRUE]
                           ELSE NoPref] : a \in Users}

InitRace ==
    /\ signalsConnected \in SignalWirings
    /\ posts \in [PostIds -> [author : Users, content : {"a"}]]
    /\ nextPostId = MaxPosts + 1
    /\ likeRows = EmptyBag
    /\ prefs \in RacePrefs
    /\ notifications = EmptyBag
    /\ follows = {}
    /\ CommentsIdle
    /\ BooksIdle
    /\ AuthIdle
    /\ likeProcs = [i \in LikeWorkers |-> IdleWorker]
    /\ BlogIdle
    /\ resp = NoResp

RaceFrame == UNCHANGED <<bookVars, authVars, blogVars>>

NextRace ==
    \/ \E i \in LikeWorkers, u \in Users, p \in PostInputs : LikeStart(i, u, p) /\ RaceFrame
    \/ \E i \in LikeWorkers : LikeGet(i) /\ RaceFrame
    \/ \E i \in LikeWorkers : LikeInsert(i) /\ RaceFrame
    \/ \E i \in LikeWorkers : LikeRespond(i) /\ RaceFrame

SpecRace == InitRace /\ [][NextRace]_vars

(***************************************************************************)
(* django_blog: editing and deleting posts and comments                    *)
(***************************************************************************)
CommentMinLength == 3

Anonymous == 0                 \* request.user of a request without a session
BlogUserIds == {1, 2}
BlogRequesters == {Anonymous} \cup BlogUserIds
BlogPostIds == {1}
BlogPostInputs == {0, 1}        \* 0 is never a row
BlogCommentIds == {1, 2}
BlogCommentInputs == {0, 1, 2}
CommentTexts == {<<"a", "b">>, <<"n", "e", "w">>, <<" ", "n", "e", "w", " ">>}

BlogExchange(op, u, pk, status, location, error) ==
    [op |-> op, user |-> u, pk |-> pk, status |-> status, location |-> location,
     error |-> error]

\* LoginRequiredMixin and UserPassesTestMixin in front of a view on a row
\* written by `author` (get_object raises Http404 when there is no row):
\* "pass", or the response of handle_no_permission as the four views override it
BlogGate(u, found, author) ==
    IF ~found THEN [status |-> 404, location |-> "", error |-> "not_found"]
    ELSE IF u = Anonymous \/ u # author
         THEN [status |-> 302, location |-> "post_detail", error |-> "no_permission"]
    ELSE [status |-> 200, location |-> "", error |-> "pass"]

\* CommentForm.clean_content on the stripped value of the CharField
CommentContentValid(text) == Len(Strip(text)) >= CommentMinLength

\* Post.delete() with Comment.post on_delete=CASCADE
BlogCommentsWithout(p) ==
    [c \in {x \in DOMAIN blogComments : blogComments[x].post # p} |-> blogComments[c]]

\* PostUpdateView (POST)
PostUpdateView(u, pk) ==
    LET found == pk \in DOMAIN blogPosts
        gate == BlogGate(u, found, IF found THEN blogPosts[pk].author ELSE Anonymous)
    IN  /\ resp' = IF gate.error # "pass"
                   THEN BlogExchange("post_edit", u, pk, gate.status, gate.location, gate.error)
                   \* PostForm.__init__ reads instance.tags, which Post lacks
                   ELSE BlogExchange("post_edit", u, pk, 500, "", "AttributeError")
        /\ UNCHANGED blogVars

\* PostDeleteView (POST)
PostDeleteView(u, pk) ==
    LET found == pk \in DOMAIN blogPosts
        gate == BlogGate(u, found, IF found THEN blogPosts[pk].author ELSE Anonymous)
    IN  IF gate.error # "pass" THEN
            /\ resp' = BlogExchange("post_delete", u, pk, gate.status, gate.location, gate.error)
            /\ UNCHANGED blogVars
        ELSE
            /\ blogPosts' = [p \in DOMAIN blogPosts \ {pk} |-> blogPosts[p]]
            /\ blogComments' = BlogCommentsWithout(pk)
            /\ resp' = BlogExchange("post_delete", u, pk, 302, "post_list", "")
            /\ UNCHANGED <<blogUsers, nextBlogUserId, blogProfiles>>

\* CommentUpdateView (POST)
CommentUpdateView(u, pk, text) ==
    LET found == pk \in DOMAIN blogComments
        gate == BlogGate(u, found, IF found THEN blogComments[pk].author ELSE Anonymous)
    IN  IF gate.error # "pass" THEN
            /\ resp' = BlogExchange("comment_edit", u, pk, gate.status, gate.location, gate.error)
            /\ UNCHANGED blogVars
        ELSE IF ~CommentContentValid(text) THEN
            /\ resp' = BlogExchange("comment_edit", u, pk, 200, "", "content_invalid")
            /\ UNCHANGED blogVars
        ELSE
            /\ blogComments' = [blogComments EXCEPT ![pk].content = Strip(text)]
            /\ resp' = BlogExchange("comment_edit", u, pk, 302, "post_detail", "")
            /\ UNCHANGED <<blogUsers, nextBlogUserId, blogProfiles, blogPosts>>

\* CommentDeleteView (POST)
CommentDeleteView(u, pk) ==
    LET found == pk \in DOMAIN blogComments
        gate == BlogGate(u, found, IF found THEN blogComments[pk].author ELSE Anonymous)
    IN  IF gate.error # "pass" THEN
            /\ resp' = BlogExchange("comment_delete", u, pk, gate.status, gate.location, gate.error)
            /\ UNCHANGED blogVars
        ELSE
            /\ blogComments' = [c \in DOMAIN blogComments \ {pk} |-> blogComments[c]]
            /\ resp' = BlogExchange("comment_delete", u, pk, 302, "post_detail", "")
            /\ UNCHANGED <<blogUsers, nextBlogUserId, blogProfiles, blogPosts>>

\* two users, one post and two comments on it, written by either user
BlogUserRow(i) ==
    IF i = 1 THEN [username |-> "author", email |-> <<"a">>]
    ELSE [username |-> "otheruser", email |-> <<"o">>]

InitBlogEdit ==
    /\ SocialIdle
    /\ BooksIdle
    /\ AuthIdle
    /\ RaceIdle
    /\ blogUsers = [i \in BlogUserIds |-> BlogUserRow(i)]
    /\ nextBlogUserId = 3
    /\ blogProfiles = [i \in BlogUserIds |-> [bio |-> <<>>]]
    /\ blogPosts \in [BlogPostIds -> [title : {<<"t">>}, content : {<<"c">>},
                                      author : BlogUserIds]]
    /\ blogComments \in [BlogCommentIds -> [post : BlogPostIds, author : BlogUserIds,
                                            content : {<<"o", "l", "d">>}]]
    /\ resp = NoResp

BlogFrame == UNCHANGED <<socialVars, bookVars, authVars, likeProcs>>

NextBlogEdit ==
    \/ \E u \in BlogRequesters, pk \in BlogPostInputs : PostUpdateView(u, pk) /\ BlogFrame
    \/ \E u \in BlogRequesters, pk \in BlogPostInputs : PostDeleteView(u, pk) /\ BlogFrame
    \/ \E u \in BlogRequesters, pk \in BlogCommentInputs, text \in CommentTexts :
          CommentUpdateView(u, pk, text) /\ BlogFrame
    \/ \E u \in BlogRequesters, pk \in BlogCommentInputs : CommentDeleteView(u, pk) /\ BlogFrame

SpecBlogEdit == InitBlogEdit /\ [][NextBlogEdit]_vars

(***************************************************************************)
(* django_blog: registration and the profile form                          *)
(***************************************************************************)
BlogNames == {"ann", "bob"}
\* e-mail values of a form: empty, two addresses, one with a leading blank
EmailInputs == {<<>>, <<"a">>, <<" ", "a">>, <<"b">>}
BioInputs == {<<>>, <<"x">>}

\* forms.EmailField: the value is stripped before it is validated
EmailClean(email) == Strip(email)

BlogEmailTakenNever(email, pk) == FALSE

\* User.objects.filter(email=email).exclude(pk=pk).exists(); registration has
\* no instance to exclude
BlogEmailTaken(email, pk) ==
    \E i \in DOMAIN blogUsers \ {pk} : blogUsers[i].email = email

BlogUsernameTaken(name) == \E i \in DOMAIN blogUsers : blogUsers[i].username = name

\* CustomUserCreationForm.is_valid
RegisterFormError(name, email, match) ==
    IF BlogUsernameTaken(name) THEN "username_taken"
    ELSE IF EmailClean(email) = <<>> THEN "email_required"
    ELSE IF BlogEmailTaken(EmailClean(email), Anonymous) THEN "email_taken"
    ELSE IF ~match THEN "password_mismatch"
    ELSE ""

\* register (POST); `match` says whether password1 and password2 agree
BlogRegister(u, name, email, match) ==
    IF u # Anonymous THEN
        /\ resp' = BlogExchange("register", u, 0, 302, "profile", "already_authenticated")
        /\ UNCHANGED blogVars
    ELSE IF RegisterFormError(name, email, match) # "" THEN
        /\ resp' = BlogExchange("register", u, 0, 200, "",
                                RegisterFormError(name, email, match))
        /\ UNCHANGED blogVars
    ELSE
        /\ blogUsers' = [i \in DOMAIN blogUsers \cup {nextBlogUserId} |->
                            IF i = nextBlogUserId
                            THEN [username |-> name, email |-> EmailClean(email)]
                            ELSE blogUsers[i]]
        \* create_user_profile, the post_save receiver of User
        /\ blogProfiles' = [i \in DOMAIN blogProfiles \cup {nextBlogUserId} |->
                               IF i = nextBlogUserId THEN [bio |-> <<>>]
                               ELSE blogProfiles[i]]
        /\ nextBlogUserId' = nextBlogUserId + 1
        /\ resp' = BlogExchange("register", nextBlogUserId, 0, 302, "profile", "")
        /\ UNCHANGED <<blogPosts, blogComments>>

\* UserProfileForm.is_valid for the profile of user `u`
ProfileFormError(u, email) ==
    IF EmailClean(email) = <<>> THEN "email_required"
    ELSE IF BlogEmailTaken(EmailClean(email), u) THEN "email_taken"
    ELSE ""

\* profile (POST)
BlogProfile(u, email, bio) ==
    IF u = Anonymous THEN
        /\ resp' = BlogExchange("profile", u, 0, 302, "login", "login_required")
        /\ UNCHANGED blogVars
    ELSE IF ProfileFormError(u, email) # "" THEN
        /\ resp' = BlogExchange("profile", u, 0, 200, "", ProfileFormError(u, email))
        /\ UNCHANGED blogVars
    ELSE
        /\ blogUsers' = [blogUsers EXCEPT ![u].email = EmailClean(email)]
        /\ blogProfiles' = [blogProfiles EXCEPT ![u].bio = bio]
        /\ resp' = BlogExchange("profile", u, 0, 302, "profile", "")
        /\ UNCHANGED <<nextBlogUserId, blogPosts, blogComments>>

InitBlogUsers ==
    /\ SocialIdle
    /\ BooksIdle
    /\ AuthIdle
    /\ RaceIdle
    /\ BlogIdle
    /\ resp = NoResp

NextBlogUsers ==
    \/ \E u \in {Anonymous} \cup DOMAIN blogUsers, name \in BlogNames,
          email \in EmailInputs, match \in BOOLEAN :
          BlogRegister(u, name, email, match) /\ BlogFrame
    \/ \E u \in {Anonymous} \cup DOMAIN blogUsers, email \in EmailInputs, bio \in BioInputs :
          BlogProfile(u, email, bio) /\ BlogFrame

SpecBlogUsers == InitBlogUsers /\ [][NextBlogUsers]_vars

(***************************************************************************)
(* Properties of the like subsystem                                        *)
(***************************************************************************)
LikePairs == Users \X PostInputs

C1_AtMostOneRow == \A k \in LikePairs : CopiesIn(k, likeRows) <= 1

C1_RepeatedLikeStep ==
    \A u \in Users, p \in PostIds :
        (Like(u, p) /\ PostExists(p) /\ CopiesIn(<<u, p>>, likeRows) > 0) =>
            /\ resp'.status = 400
            /\ resp'.error = "already_liked"
            /\ likeRows' = likeRows
            /\ LikesCount(likeRows', p) = LikesCount(likeRows, p)

C2_OneLikeNotification ==
    [][\A u \in Users, p \in PostIds :
        (Like(u, p) /\ PostExists(p) /\ resp'.status = 201) =>
            IF u # posts[p].author
            THEN notifications' =
                    notifications (+) SetToBag({NotifRow(posts[p].author, u, "like", p)})
            ELSE notifications' = notifications]_vars

\* C3: when the post author's NotificationPreference row has likes disabled,
\* a like of the post by another user answers 201 and adds no Notification.
C3_DisabledPreference ==
    [][\A u \in Users, p \in PostIds :
        (/\ Like(u, p)
         /\ PostExists(p)
         /\ u # posts[p].author
         /\ ~LikeLookup(u, p)
         /\ prefs[posts[p].author].exists
         /\ ~prefs[posts[p].author].notify_on_like) =>
            /\ resp'.status = 201
            /\ notifications' = notifications]_vars

UnfollowStep(u, t) == Unfollow(u, t) \/ UnfollowUserView(u, t)

\* C4 as stated: an unfollow request that targets a user the requester does
\* not follow answers 400 "not following" and leaves the follow sets alone.
C4_UnfollowNotFollowing ==
    [][\A u \in Users, t \in Users :
        (UnfollowStep(u, t) /\ <<u, t>> \notin follows) =>
            /\ resp'.status = 400
            /\ resp'.error = "not_following"
            /\ follows' = follows]_vars

\* C4 as amended: an unfollow request that targets another user the
\* requester does not follow answers 400 "not following"; one that targets
\* the requester answers 400 "cannot unfollow yourself"; in both cases every
\* user's followers / following set is unchanged.
C4_UnfollowNotFollowingOther ==
    [][\A u \in Users, t \in Users :
        (UnfollowStep(u, t) /\ <<u, t>> \notin follows) =>
            /\ resp'.status = 400
            /\ resp'.error = IF t = u THEN "cannot_unfollow_self" ELSE "not_following"
            /\ follows' = follows]_vars

C4_Witness ==
    /\ resp.op \in {"unfollow", "unfollow_user_view"}
    /\ resp.status = 400
    /\ resp.error = "not_following"
    /\ resp.user # resp.target
    /\ follows # {}

(***************************************************************************)
(* Properties of post management                                           *)
(***************************************************************************)
\* C8: an authenticated user who is not the author of a post and sends
\* PUT / PATCH or DELETE for it gets 403 Forbidden, and the post is neither
\* modified nor deleted.
C8_NonOwnerForbidden ==
    [][\A u \in Users, p \in PostIds :
        (/\ PostExists(p)
         /\ posts[p].author # u
         /\ \/ PostDestroy(u, p)
            \/ \E partial \in BOOLEAN, pl \in PostPayloads :
                  PostUpdate(u, p, partial, pl)) =>
            /\ resp'.status = 403
            /\ posts' = posts]_vars

(***************************************************************************)
(* Properties of the Book API                                              *)
(***************************************************************************)
GuardedWrites == {"book_create", "book_update", "book_delete",
                  "author_create", "author_update", "author_delete"}
BookWrites == {"book_create", "book_update", "book_delete"}

\* C6: on every guarded write endpoint (create, update, delete of Book and
\* Author) a request without credentials gets the one authentication error,
\* with no validation errors in it, whether its payload is valid or not.
C6_AuthBeforeValidation ==
    (resp.op \in GuardedWrites /\ ~resp.auth) =>
        /\ resp.status = UnauthenticatedStatus
        /\ resp.kind = "not_authenticated"
        /\ resp.errors = {}

C6_Witness ==
    /\ resp.op = "book_create"
    /\ ~resp.auth
    /\ resp.kind = "not_authenticated"
    /\ "title" \notin resp.payload.has
    /\ resp.payload.publication_year > CurrentYear
    /\ "publication_year" \in BookErrors(resp.payload, FALSE)

\* C7: a POST, PUT / PATCH or DELETE without credentials on a Book endpoint
\* leaves the stored books and authors exactly as they were: nothing is
\* created, no field changes, and the targeted book still exists.
C7_UnauthenticatedFrame ==
    [][(resp'.op \in BookWrites /\ ~resp'.auth) =>
          /\ UNCHANGED <<bookVars, appVars>>
          /\ resp'.id \in DOMAIN books => resp'.id \in DOMAIN books']_vars

C7_Witness ==
    /\ resp.op = "book_delete"
    /\ ~resp.auth
    /\ resp.id \in DOMAIN books

\* C9: an authenticated create, or update of an existing book, that sends a
\* publication_year greater than the current year answers 400 with
\* publication_year among the rejected fields and stores nothing; a
\* publication_year equal to the current year or earlier is not rejected, and
\* the request succeeds and stores that year when no other field is invalid.
C9_FutureYearRejected ==
    [][(/\ resp'.op \in {"book_create", "book_update"}
        /\ resp'.auth
        /\ "publication_year" \in resp'.payload.has
        /\ resp'.op = "book_update" => resp'.id \in DOMAIN books) =>
          IF resp'.payload.publication_year > CurrentYear
          THEN /\ resp'.status = 400
               /\ "publication_year" \in resp'.errors
               /\ UNCHANGED <<bookVars, appVars>>
          ELSE /\ "publication_year" \notin resp'.errors
               /\ resp'.errors = {} =>
                     /\ resp'.status \in {200, 201}
                     /\ resp'.data # {}
                     /\ \A b \in resp'.data :
                           /\ b.id \in DOMAIN books'
                           /\ books'[b.id].publication_year =
                                 resp'.payload.publication_year]_vars

C9_Witness ==
    /\ resp.op = "book_update"
    /\ resp.auth
    /\ resp.id \in DOMAIN books
    /\ resp.payload.publication_year = CurrentYear + 1
    /\ resp.status = 400
    /\ books[resp.id].publication_year = CurrentYear

BookFieldsOf(b) ==
    [title |-> b.title, publication_year |-> b.publication_year, author |-> b.author]

\* C10 as stated: after a successful create, the create response and the
\* retrieval of the returned id both carry exactly the payload's title,
\* publication_year and author.
C10_RoundTrip ==
    [][(resp'.op = "book_create" /\ resp'.status = 201) =>
          /\ resp'.data # {}
          /\ \A b \in resp'.data :
                /\ BookFieldsOf(b) = BookFieldsOf(resp'.payload)
                /\ RetrieveBook(books', b.id) = {b}]_vars

\* C10 as amended: after a successful create, the create response and the
\* retrieval of the returned id both carry the payload's publication_year
\* and author exactly, and the payload's title with its leading and trailing
\* whitespace removed.
C10_RoundTripTrimmed ==
    [][(resp'.op = "book_create" /\ resp'.status = 201) =>
          /\ resp'.data # {}
          /\ \A b \in resp'.data :
                /\ BookFieldsOf(b) =
                      [BookFieldsOf(resp'.payload) EXCEPT
                          !.title = Strip(resp'.payload.title)]
                /\ RetrieveBook(books', b.id) = {b}]_vars

C10_Witness ==
    /\ resp.op = "book_create"
    /\ resp.status = 201
    /\ resp.payload.title = <<" ", "a", " ">>
    /\ \E b \in resp.data :
          /\ b.title = <<"a">>
          /\ RetrieveBook(books, b.id) = {b}

(***************************************************************************)
(* Properties of cascading deletes                                         *)
(***************************************************************************)
C11_NoOrphans ==
    /\ \A b \in DOMAIN books : books[b].author \in DOMAIN authors
    /\ \A c \in DOMAIN comments : comments[c].post \in DOMAIN posts

C11_AuthorStep ==
    (resp'.op = "author_delete" /\ resp'.status = 204) =>
        /\ DOMAIN authors' = DOMAIN authors \ {resp'.id}
        /\ \A a \in DOMAIN authors' : authors'[a] = authors[a]
        /\ DOMAIN books' = {b \in DOMAIN books : books[b].author # resp'.id}
        /\ \A b \in DOMAIN books' : books'[b] = books[b]
        /\ UNCHANGED socialVars

C11_PostStep ==
    (resp'.op = "post_destroy" /\ resp'.status = 204) =>
        /\ DOMAIN posts' = DOMAIN posts \ {resp'.post}
        /\ \A q \in DOMAIN posts' : posts'[q] = posts[q]
        /\ DOMAIN comments' = {c \in DOMAIN comments : comments[c].post # resp'.post}
        /\ \A c \in DOMAIN comments' : comments'[c] = comments[c]
        /\ UNCHANGED <<bookVars, appVars>>

\* C11: deleting an Author with N books, or a Post with N comments, removes
\* in one step the parent and exactly the rows that depend on it, leaves every
\* other author, book, post and comment as it was, and no state holds a book
\* whose author or a comment whose post no longer exists.
C11_CascadeDelete == [](C11_NoOrphans) /\ [][C11_AuthorStep /\ C11_PostStep]_vars

C11_Witness ==
    /\ resp.op = "author_delete"
    /\ resp.status = 204
    /\ resp.id \notin DOMAIN authors
    /\ DOMAIN authors # {}
    /\ DOMAIN books # {}
    /\ DOMAIN books # CascadeBooks

(***************************************************************************)
(* Properties of the Book list                                             *)
(***************************************************************************)
\* the declared filters only, each with a value of its type
C12_ValidFilters(q) ==
    /\ q.has \subseteq DeclaredFilters
    /\ \A f \in NumberFilters \cap q.has : q[f].ok

\* book b satisfies every supplied filter, the text filters taken as `text`
\* gives them
C12_Satisfies(q, b, text(_)) ==
    /\ "title" \in q.has => IContains(books[b].title, text(q.title))
    /\ "author_name" \in q.has =>
          IContains(authors[books[b].author].name, text(q.author_name))
    /\ "publication_year" \in q.has =>
          books[b].publication_year = q.publication_year.n
    /\ "publication_year_min" \in q.has =>
          books[b].publication_year >= q.publication_year_min.n
    /\ "publication_year_max" \in q.has =>
          books[b].publication_year <= q.publication_year_max.n

C12_AsSent(t) == t

\* C12 as stated: for every combination of the declared filters with valid
\* values, every listed book is a stored book and satisfies every supplied
\* filter (case-insensitive containment for title and author_name, equality
\* for publication_year, inclusive bounds for _min and _max).
C12_FiltersSatisfied ==
    (resp.op = "book_list" /\ resp.status = 200 /\ C12_ValidFilters(resp.query)) =>
        \A i \in DOMAIN resp.results :
            /\ resp.results[i] \in DOMAIN books
            /\ C12_Satisfies(resp.query, resp.results[i], C12_AsSent)

\* C12 as amended: the same, with each text filter taken on its value with
\* the surrounding whitespace removed.
C12_FiltersSatisfiedTrimmed ==
    (resp.op = "book_list" /\ resp.status = 200 /\ C12_ValidFilters(resp.query)) =>
        /\ resp.count <= Cardinality(DOMAIN books)
        /\ \A i \in DOMAIN resp.results :
              /\ resp.results[i] \in DOMAIN books
              /\ C12_Satisfies(resp.query, resp.results[i], Strip)

C12_Witness ==
    /\ resp.op = "book_list"
    /\ resp.status = 200
    /\ {"title", "publication_year_min"} \subseteq resp.query.has
    /\ resp.query.title = <<" ", "b">>
    /\ resp.results # <<>>
    /\ Len(resp.results) < Cardinality(DOMAIN books)

Reverse(seq) == [i \in 1..Len(seq) |-> seq[Len(seq) + 1 - i]]

\* the last two requests were served, and the second is the first with the
\* ordering on the same declared field turned from f to -f
C13_ThenDescending ==
    /\ resp.op = "book_list" /\ resp.status = 200
    /\ resp'.op = "book_list" /\ resp'.status = 200
    /\ "ordering" \in resp.query.has
    /\ resp.query.ordering.field \in OrderingFields
    /\ ~resp.query.ordering.desc
    /\ resp'.query = [resp.query EXCEPT !.ordering.desc = TRUE]

\* no two books of the listing have the same value of field f
C13_DistinctKeys(f, seq) ==
    \A i, j \in DOMAIN seq :
        i # j => KeyLess(f, seq[i], seq[j]) \/ KeyLess(f, seq[j], seq[i])

C14_InvalidOrderingRejected ==
    (/\ resp.op = "book_list"
     /\ "ordering" \in resp.query.has
     /\ resp.query.ordering.field \notin OrderingFields) =>
        (resp.status = 400 /\ resp.kind = "invalid_ordering")

\* the filter parameters of q whose text is no number
C17_Unparsed(q) == {f \in (NumberFilters \cup LegacyFilters) \cap q.has : ~q[f].ok}

\* q with those parameters left out
C17_Without(q) == [q EXCEPT !.has = q.has \ C17_Unparsed(q)]

\* C17: a filter value that does not parse (publication_year_min=abc,
\* year_min=abc, author=abc) is treated as if the parameter were absent: the
\* request succeeds and lists what it lists without the parameter.
C17_UnparsedIgnored ==
    (resp.op = "book_list" /\ C17_Unparsed(resp.query) # {}) =>
        /\ resp.status = 200
        /\ resp.count = Cardinality(Matching(C17_Without(resp.query)))

\* the response answers a list request whose filter values all parse
C15_Listed == resp.op = "book_list" /\ C17_Unparsed(resp.query) = {}

\* number of the last page of the books matching the request
C15_LastPage == NumPages(Cardinality(Matching(resp.query)))

\* the response is a success with no results and no next page
C15_EmptySuccess == resp.status = 200 /\ resp.results = <<>> /\ ~resp.next

C15_InvalidPageError == resp.status # 200 /\ resp.kind = "invalid_page"

\* C15 as stated: a page beyond the last page is answered with success, empty
\* results and has_next = false; a page <= 0 with the InvalidPage error.
C15_OutOfRangePage ==
    (C15_Listed /\ "page" \in resp.query.has /\ resp.query.page.ok) =>
        /\ resp.query.page.n > C15_LastPage => C15_EmptySuccess
        /\ resp.query.page.n <= 0 => C15_InvalidPageError

\* C15 as amended: a page beyond the last page and a page <= 0 are both
\* answered with the InvalidPage error (404); the only success with empty
\* results is page 1 of a listing that matches nothing, and it has no next.
C15_OutOfRangePageError ==
    C15_Listed =>
        /\ ("page" \in resp.query.has /\ resp.query.page.ok /\
            (resp.query.page.n > C15_LastPage \/ resp.query.page.n <= 0)) =>
                (C15_InvalidPageError /\ resp.status = 404)
        /\ (resp.status = 200 /\ resp.results = <<>>) =>
                /\ Matching(resp.query) = {}
                /\ PageNumber(resp.query).n = 1
                /\ ~resp.next

C15_Witness ==
    /\ C15_Listed
    /\ "page" \in resp.query.has
    /\ resp.query.page = Num(3)
    /\ Cardinality(Matching(resp.query)) = 2 * PageSize
    /\ resp.status = 404

\* position of book b among the books matching q, in the requested order
C16_Rank(q, b) ==
    1 + Cardinality({z \in Matching(q) : Precedes(EffectiveOrdering(q), z, b)})

\* C16: on an in-range page, count is the number of books matching the
\* filters, results is the page's slice of at most PageSize books in order,
\* previous is absent exactly on page 1 and next is present exactly when
\* books remain after the page.
C16_PageEnvelope ==
    (resp.op = "book_list" /\ resp.status = 200) =>
        LET q == resp.query
            n == PageNumber(q).n
            total == Cardinality(Matching(q))
            first == (n - 1) * PageSize
        IN  /\ resp.count = total
            /\ Len(resp.results) =
                  (IF total - first < PageSize THEN total - first ELSE PageSize)
            /\ \A i \in DOMAIN resp.results :
                  /\ resp.results[i] \in Matching(q)
                  /\ C16_Rank(q, resp.results[i]) = first + i
            /\ resp.previous <=> n > 1
            /\ resp.next <=> first + PageSize < total

C16_Witness ==
    /\ resp.op = "book_list"
    /\ resp.status = 200
    /\ PageNumber(resp.query).n = 2
    /\ resp.count = 2 * PageSize + 1
    /\ Len(resp.results) = PageSize
    /\ resp.previous
    /\ resp.next

\* the notifications with the given verb that the step adds
C18_NewRows(verb) ==
    LET added == notifications' (-) notifications
    IN  [r \in {x \in DOMAIN added : x.verb = verb} |-> added[r]]

\* the step answers a request of user c to comment on the existing post p,
\* with content and without a parent comment
C18_CommentRequest(c, p) ==
    /\ PostExists(p)
    /\ resp'.op = "comment"
    /\ resp'.user = c /\ resp'.post = p
    /\ resp'.content # "" /\ resp'.parent = NoParent

\* the step saves a comment of user c on post p
C18_CommentSaved(c, p) ==
    /\ PostExists(p)
    /\ nextCommentId' = nextCommentId + 1
    /\ comments' = comments @@ (nextCommentId :> [author |-> c, post |-> p])

\* C18: creating a comment on post p by user c adds exactly one 'comment'
\* Notification, from c to p's author, when c is not the author, and none when
\* c is the author.
C18_CommentNotifies ==
    [][\A c \in Users, p \in PostIds :
          (C18_CommentRequest(c, p) \/ C18_CommentSaved(c, p)) =>
              /\ C18_CommentSaved(c, p)
              /\ C18_NewRows("comment") =
                    IF posts[p].author # c
                    THEN SetToBag({NotifRow(posts[p].author, c, "comment", nextCommentId)})
                    ELSE EmptyBag]_vars

\* the step answers a request of user r to reply, on post p, to the existing
\* comment k of another user
C19_ReplyRequest(r, p, k) ==
    /\ PostExists(p)
    /\ ParentFound(p, k)
    /\ comments[k].author # r
    /\ resp'.op = "comment"
    /\ resp'.user = r /\ resp'.post = p
    /\ resp'.content # "" /\ resp'.parent = k

\* C19: a reply by user r to an existing comment of another user c adds
\* exactly one 'reply' Notification, from r to c, whatever the preferences of
\* the other users are.
C19_ReplyNotifies ==
    [][\A r \in Users, p \in PostIds, k \in 1..MaxComments :
          C19_ReplyRequest(r, p, k) =>
              /\ nextCommentId' = nextCommentId + 1
              /\ C18_NewRows("reply") =
                    SetToBag({NotifRow(comments[k].author, r, "reply", nextCommentId)})]_vars

FollowStep(u, t) == Follow(u, t) \/ FollowUserView(u, t)

\* C20: a successful follow of user t by user u adds exactly one 'follow'
\* Notification, from u to t, when t has follow notifications enabled (no
\* user of this specification has turned them off); a rejected follow adds
\* none.
C20_FollowNotifies ==
    [][\A u \in Users, t \in UserInputs :
          FollowStep(u, t) =>
              IF resp'.status = 200
              THEN notifications' =
                      notifications (+) SetToBag({NotifRow(t, u, "follow", 0)})
              ELSE notifications' = notifications]_vars

\* the Like rows of post p
C23_RowsOf(tbl, p) == [k \in {x \in DOMAIN tbl : x[2] = p} |-> tbl[k]]

C23_CountAccurate ==
    (resp.op \in {"like", "unlike"} /\ resp.status \in {200, 201}) =>
        resp.likes_count = BagCardinality(C23_RowsOf(likeRows, resp.post))

\* the last request was a successful like and this step is the same user's
\* unlike of the same post
C23_LikeThenUnlike ==
    /\ resp.op = "like" /\ resp.status = 201
    /\ Unlike(resp.user, resp.post)

C24_PartialUpdateFrame ==
    [][(/\ resp'.op = "book_update" /\ resp'.partial /\ resp'.status = 200
        /\ resp'.payload.has # BookFields) =>
          LET id == resp'.id
              pl == resp'.payload
          IN  /\ DOMAIN books' = DOMAIN books
              /\ \A f \in BookFields \ pl.has : books'[id][f] = books[id][f]
              /\ \A f \in pl.has : books'[id][f] = BookValidated(pl)[f]
              /\ \A j \in DOMAIN books \ {id} : books'[j] = books[j]
              /\ UNCHANGED <<authors, nextAuthorId, nextBookId>>]_vars

C24_Witness ==
    /\ resp.op = "book_update" /\ resp.partial /\ resp.status = 200
    /\ resp.payload.has = {"publication_year"}
    /\ resp.payload.publication_year = CurrentYear
    /\ books[resp.id] = [title |-> <<"b">>, publication_year |-> CurrentYear, author |-> 1]
    /\ \E j \in DOMAIN books \ {resp.id} : books[j].publication_year = CurrentYear - 1

\* C27: the author of a new post is the user who sent the create request,
\* whatever author_id the payload carries, and no later request changes the
\* author of an existing post.
C27_AuthorFixed ==
    [][/\ (resp'.op = "post_create" /\ resp'.status = 201) =>
              /\ resp'.post \notin DOMAIN posts
              /\ posts'[resp'.post].author = resp'.user
       /\ \A p \in DOMAIN posts \cap DOMAIN posts' :
              posts'[p].author = posts[p].author]_vars

C28_Graph ==
    /\ \A u \in Users : u \notin Followers(u)
    /\ \A u, t \in Users : u \in Followers(t) <=> t \in Following(u)

\* the step answers with success a request of user u on user t, sent to one
\* of the endpoints ops
C28_Succeeds(ops, u, t) ==
    /\ resp'.op \in ops
    /\ resp'.user = u /\ resp'.target = t
    /\ resp'.status = 200

C28_FollowOps == {"follow", "follow_user_view"}
C28_UnfollowOps == {"unfollow", "unfollow_user_view"}

C28_Step ==
    \A u \in Users, t \in Users :
        /\ C28_Succeeds(C28_FollowOps, u, t) => u \in Followers(t)'
        /\ C28_Succeeds(C28_UnfollowOps, u, t) => u \notin Followers(t)'
        /\ ~C28_Succeeds(C28_FollowOps \cup C28_UnfollowOps, u, t) =>
              (u \in Followers(t)' <=> u \in Followers(t))
        /\ (FollowStep(u, t) /\ (u = t \/ u \in Followers(t))) =>
              /\ resp'.status = 400
              /\ UNCHANGED socialVars

\* C28: nobody follows themselves; u is a follower of t exactly when t is in
\* u's following; a successful follow makes u a follower of t, a successful
\* unfollow ends it and no other request changes it (so u follows t exactly
\* when u's last successful request on t was a follow); a self-follow or a
\* repeated follow answers 400 and changes nothing.
C28_FollowGraph == [](C28_Graph) /\ [][C28_Step]_vars

C28_Witness ==
    /\ resp.op \in C28_FollowOps
    /\ resp.status = 400
    /\ resp.error = "already_following"
    /\ resp.user \in Followers(resp.target)
    /\ resp.target \notin Followers(resp.user)

(***************************************************************************)
(* Properties of the notification endpoints                                *)
(***************************************************************************)
NotifOps == {"notif_list", "notif_retrieve", "mark_read", "mark_all_read",
             "unread_count", "bulk_action", "clear_all"}

\* C21: a request of user u to the notification endpoints returns only
\* notifications whose recipient is u, and leaves every notification of
\* another recipient in the table exactly as it was.
C21_RecipientOnly ==
    [][resp'.op \in NotifOps =>
          /\ \A r \in resp'.results : r.recipient = resp'.user
          /\ {r \in BagToSet(notifications') : r.recipient # resp'.user} =
             {r \in BagToSet(notifications) : r.recipient # resp'.user}]_vars

C21_Witness ==
    /\ resp.op = "bulk_action"
    /\ resp.status = 200
    /\ resp.error = "delete"
    /\ resp.count = 1
    /\ \E r \in BagToSet(notifications) : r.recipient # resp.user /\ ~r.is_read

\* the unread notifications of user u in table tbl
C22_Unread(tbl, u) == {r \in BagToSet(tbl) : r.recipient = u /\ ~r.is_read}

\* C22: after mark_all_read by user u, u has no unread notification and the
\* count of the response is the number of u's notifications that were unread
\* before the call; a mark_all_read by u right after one reports count 0.
C22_MarkAllRead ==
    [][resp'.op = "mark_all_read" =>
          /\ resp'.status = 200
          /\ C22_Unread(notifications', resp'.user) = {}
          /\ resp'.count = Cardinality(C22_Unread(notifications, resp'.user))
          /\ (resp.op = "mark_all_read" /\ resp.user = resp'.user) =>
                resp'.count = 0]_vars

C22_Witness ==
    /\ resp.op = "mark_all_read"
    /\ resp.count = 1
    /\ C22_Unread(notifications, resp.user) = {}
    /\ \E r \in BagToSet(notifications) : r.recipient = resp.user /\ r.is_read
    /\ \E r \in BagToSet(notifications) : r.recipient # resp.user /\ ~r.is_read

(***************************************************************************)
(* Properties of the token API                                             *)
(***************************************************************************)
C29_OneTokenEach ==
    /\ \A n \in AuthNames : Cardinality(TokensOf(n)) <= 1
    /\ \A t \in tokens : t.user \in DOMAIN accounts /\ t.key \in 1..(nextKey - 1)
    /\ \A t1, t2 \in tokens : t1.key = t2.key => t1 = t2

\* what the last response says about the Token table it left behind
C29_Answer ==
    /\ resp.status # 500
    /\ (resp.op = "register" /\ resp.status = 201) =>
           /\ TokensOf(resp.user) = {[user |-> resp.user, key |-> resp.token]}
           /\ resp.token = nextKey - 1
    /\ (resp.op = "login" /\ resp.status = 200) =>
           /\ TokensOf(resp.user) = {[user |-> resp.user, key |-> resp.token]}
           /\ TokenUser(resp.token) = resp.user
    /\ (resp.op = "logout" /\ resp.status = 200) =>
           /\ TokensOf(resp.user) = {}
           /\ resp.key \in DeletedKeys
    /\ (resp.op \in {"logout", "profile"} /\ resp.status = 200) =>
           resp.user \in DOMAIN accounts

C29_Step ==
    /\ \A n \in AuthNames, pw \in Passwords :
           (Login(n, pw) /\ Authenticate(n, pw)) =>
               /\ resp'.status = 200
               /\ TokensOf(n) # {} => tokens' = tokens
               /\ TokensOf(n) = {} => resp'.token \notin 1..(nextKey - 1)
    /\ \A n \in AuthNames, pw \in Passwords :
           (Register(n, pw, pw) /\ RegisterError(n, pw, pw) = "") =>
               resp'.status = 201 /\ TokensOf(n) = {}
    /\ \A key \in KeyInputs :
           (Logout(key) /\ key \in TokenKeys) =>
               resp'.status = 200 /\ key \in DeletedKeys'
    /\ \A key \in KeyInputs :
           ((Logout(key) \/ ProfileRetrieve(key)) /\ (key \in DeletedKeys \/ key = 0)) =>
               resp'.status = 401 /\ UNCHANGED authVars
    /\ DeletedKeys \subseteq DeletedKeys'

\* C29: across register, login and logout every user has at most one token:
\* register creates it, login answers the existing token or creates one,
\* logout deletes it, a login after a logout answers a usable token, and a
\* request that carries a deleted token is never authenticated
C29_TokenLifecycle == [](C29_OneTokenEach /\ C29_Answer) /\ [][C29_Step]_vars

\* the only user has logged out and logged in again: the old key is deleted
\* and the answer holds the new key
C29_Witness ==
    /\ Cardinality(DOMAIN accounts) = 1
    /\ resp.op = "login" /\ resp.status = 200
    /\ DeletedKeys # {}
    /\ resp.token \in TokenKeys \ DeletedKeys
    /\ TokenUser(resp.token) = resp.user

(***************************************************************************)
(* Properties of concurrent like requests                                  *)
(***************************************************************************)
\* both workers have answered requests of one user for one existing post and
\* the requests were in progress at the same time
C30_SamePairDone ==
    /\ \A i \in LikeWorkers : likeProcs[i].pc = "done"
    /\ likeProcs[1].user = likeProcs[2].user
    /\ likeProcs[1].post = likeProcs[2].post
    /\ likeProcs[1].post \in DOMAIN posts
    /\ \E i \in LikeWorkers : likeProcs[i].overlap

C30_Statuses == SetToBag({likeProcs[1].status}) (+) SetToBag({likeProcs[2].status})

\* C30: two like requests of one user for one post that are processed at the
\* same time leave exactly one Like row; one is answered 201, the other 400
\* 'already liked', and neither fails with an unhandled error
C30_ConcurrentLikes ==
    C30_SamePairDone =>
        /\ CopiesIn(<<likeProcs[1].user, likeProcs[1].post>>, likeRows) = 1
        /\ C30_Statuses = SetToBag({201}) (+) SetToBag({400})
        /\ \A i \in LikeWorkers :
               likeProcs[i].status = 400 => likeProcs[i].error = "already_liked"

\* a worker fails only in the receiver: it is registered, the author is
\* another user and has a NotificationPreference row
C30_ReceiverCrash ==
    \A i \in LikeWorkers :
        likeProcs[i].status = 500 =>
            /\ signalsConnected
            /\ prefs[posts[likeProcs[i].post].author].exists
            /\ posts[likeProcs[i].post].author # likeProcs[i].user

\* when no worker fails in the receiver the two requests leave one row and
\* are answered 201 and 400
C30_WithoutReceiverCrash ==
    /\ C30_ReceiverCrash
    /\ (C30_SamePairDone /\ \A i \in LikeWorkers : likeProcs[i].status # 500) =>
           /\ CopiesIn(<<likeProcs[1].user, likeProcs[1].post>>, likeRows) = 1
           /\ C30_Statuses = SetToBag({201}) (+) SetToBag({400})

(***************************************************************************)
(* Properties of the blog's edit and delete views                          *)
(***************************************************************************)
\* a POST to the edit or delete URL of post `pk` / comment `pk` by `u`
C25_PostRequest(u, pk) == PostUpdateView(u, pk) \/ PostDeleteView(u, pk)

C25_CommentRequest(u, pk) ==
    CommentDeleteView(u, pk) \/ \E text \in CommentTexts : CommentUpdateView(u, pk, text)

\* requests of a logged-in user on a row of another user, and of an anonymous
\* user on any row, change no table of the blog
C25_NoEffectStep ==
    /\ \A u \in BlogRequesters, pk \in DOMAIN blogPosts :
           (C25_PostRequest(u, pk) /\ u # blogPosts[pk].author) =>
               UNCHANGED blogVars /\ resp'.status = 302
    /\ \A u \in BlogRequesters, pk \in DOMAIN blogComments :
           (C25_CommentRequest(u, pk) /\ u # blogComments[pk].author) =>
               UNCHANGED blogVars /\ resp'.status = 302

C25_NoEffect == [][C25_NoEffectStep]_vars

\* an anonymous request is answered with a redirect to the login page
C25_AnonymousStep ==
    /\ \A pk \in DOMAIN blogPosts :
           C25_PostRequest(Anonymous, pk) =>
               resp'.status = 302 /\ resp'.location = "login"
    /\ \A pk \in DOMAIN blogComments :
           C25_CommentRequest(Anonymous, pk) =>
               resp'.status = 302 /\ resp'.location = "login"

\* C25: a logged-in user who is not the author cannot change a post or a
\* comment (a POST to its edit or delete URL leaves the row and its fields as
\* they were), and an anonymous request to these URLs is redirected to the
\* login page and has no effect
C25_AuthorOnly == [][C25_NoEffectStep /\ C25_AnonymousStep]_vars

(***************************************************************************)
(* Properties of the blog's registration and profile forms                 *)
(***************************************************************************)
C26_Distinct ==
    \A i, j \in DOMAIN blogUsers : i # j => blogUsers[i].email # blogUsers[j].email

\* a registration or profile update whose e-mail is the one of another user
\* is refused and changes no user and no profile
C26_RejectStep ==
    /\ \A u \in {Anonymous} \cup DOMAIN blogUsers, name \in BlogNames,
          email \in EmailInputs, match \in BOOLEAN :
           (/\ BlogRegister(u, name, email, match)
            /\ \E i \in DOMAIN blogUsers : blogUsers[i].email = EmailClean(email)) =>
               /\ resp'.error # ""
               /\ UNCHANGED <<blogUsers, blogProfiles>>
    /\ \A u \in DOMAIN blogUsers, email \in EmailInputs, bio \in BioInputs :
           (/\ BlogProfile(u, email, bio)
            /\ \E i \in DOMAIN blogUsers \ {u} : blogUsers[i].email = EmailClean(email)) =>
               /\ resp'.status = 200 /\ resp'.error # ""
               /\ UNCHANGED <<blogUsers, blogProfiles>>

\* C26: after any sequence of registrations and profile updates no two users
\* have the same e-mail address; a registration or profile update that would
\* create a duplicate is rejected and changes no user or profile field
C26_UniqueEmail == []C26_Distinct /\ [][C26_RejectStep]_vars

\* two users are registered and the profile form has just refused the
\* address of the other user
C26_Witness ==
    /\ Cardinality(DOMAIN blogUsers) = 2
    /\ resp.op = "profile"
    /\ resp.error = "email_taken"
    /\ C26_Distinct
====
